---- MODULE Spec2Model ----
(***************************************************************************)
(* Exercise-form evaluation (squats, push-ups): the phase classifiers      *)
(* determineSquatPhase / determinePushupPhase, the form evaluators         *)
(* evaluateSquatForm / evaluatePushupForm, the geometry helpers they use   *)
(* and the PoseDetector frame loop that threads the phase and the tracked  *)
(* metric from one frame to the next.                                      *)
(*                                                                         *)
(* Numbers.  The program computes in IEEE doubles; the model computes in   *)
(* integers on fixed scales:                                               *)
(*   - a coordinate c of the program is the integer c * Unit;              *)
(*   - a visibility v of the program is the integer v * VisUnit;           *)
(*   - an angle of d degrees is the integer d * DegUnit, and an angle      *)
(*     returned by calculate3DAngle or by Math.atan2 is rounded to the     *)
(*     nearest whole degree.                                               *)
(* The frames the model feeds have hips at even heights, so that the mean  *)
(* of the two hip heights is exact, and limb directions whose angle is     *)
(* within 0.03 degree of a whole degree.  Where the rounding of doubles    *)
(* decides an outcome (the arccosine for parallel vectors) the model holds *)
(* what the doubles give, point by point.  null and NaN are the integers   *)
(* Null and NaN, outside every range a coordinate or an angle can take.    *)
(***************************************************************************)
EXTENDS Integers, Sequences, FiniteSets, TLC

Unit == 20
VisUnit == 10
DegUnit == 2
Null == -900000
NaN == -900001

(***************************************************************************)
(* JavaScript value semantics used by the program's comparisons.           *)
(***************************************************************************)
\* ToNumber: null converts to 0 in a relational comparison or a sum.
ToNumber(v) == IF v = Null THEN 0 ELSE v

\* a > b and a < b: false as soon as one side is NaN.
\* a >= b in place of a > b.
GtOrEqual(a, b) == ToNumber(a) # NaN /\ ToNumber(b) # NaN /\ ToNumber(a) >= ToNumber(b)
Gt(a, b) == ToNumber(a) # NaN /\ ToNumber(b) # NaN /\ ToNumber(a) > ToNumber(b)
Lt(a, b) == ToNumber(a) # NaN /\ ToNumber(b) # NaN /\ ToNumber(a) < ToNumber(b)

\* v || d: the default d replaces every falsy v (null, NaN and 0).
OrElse(v, d) == IF v = Null \/ v = NaN \/ v = 0 THEN d ELSE v

\* (a + b) / 2, NaN when either operand is NaN.
Mean(a, b) == IF a = NaN \/ b = NaN THEN NaN ELSE (a + b) \div 2

Abs(n) == IF n < 0 THEN -n ELSE n

(***************************************************************************)
(* Math.acos and Math.atan2, in whole degrees.                             *)
(***************************************************************************)
\* Cos2Half[d+1] = 10^6 * cos^2((d + 0.5) degrees), d = 0..89.
Cos2Half ==
    << 999924, 999315, 998097, 996273, 993844, 990814, 987185, 982963, 978152, 972759,
       966790, 960252, 953154, 945503, 937310, 928584, 919335, 909576, 899318, 888573,
       877355, 865677, 853553, 840999, 828030, 814660, 800908, 786788, 772320, 757519,
       742405, 726995, 711309, 695366, 679184, 662784, 646186, 629410, 612476, 595404,
       578217, 560935, 543578, 526168, 508726, 491274, 473832, 456422, 439065, 421783,
       404596, 387524, 370590, 353814, 337216, 320816, 304634, 288691, 273005, 257595,
       242481, 227680, 213212, 199092, 185340, 171970, 159001, 146447, 134323, 122645,
       111427, 100682, 90424, 80665, 71416, 62690, 54497, 46846, 39748, 33210,
       27241, 21848, 17037, 12815, 9186, 6156, 3727, 1903, 685, 76 >>

\* TanHalf[d+1] = 10^4 * tan((d + 0.5) degrees), d = 0..89.
TanHalf ==
    << 87, 262, 437, 612, 787, 963, 1139, 1317, 1495, 1673,
       1853, 2035, 2217, 2401, 2586, 2773, 2962, 3153, 3346, 3541,
       3739, 3939, 4142, 4348, 4557, 4770, 4986, 5206, 5430, 5658,
       5890, 6128, 6371, 6619, 6873, 7133, 7400, 7673, 7954, 8243,
       8541, 8847, 9163, 9490, 9827, 10176, 10538, 10913, 11303, 11708,
       12131, 12572, 13032, 13514, 14019, 14550, 15108, 15697, 16319, 16977,
       17675, 18418, 19210, 20057, 20965, 21943, 22998, 24142, 25386, 26746,
       28239, 29887, 31716, 33759, 36059, 38667, 41653, 45107, 49152, 53955,
       59758, 66912, 75958, 87769, 103854, 127062, 163499, 229038, 381885, 1145887 >>

\* a / b < c / d for naturals a, c and positive b, d, compared through
\* their integer parts and the reciprocals of their fractional parts, so
\* that no product is formed.
RECURSIVE FracLess(_, _, _, _)
FracLess(a, b, c, d) ==
    LET qa == a \div b
        qc == c \div d
        ra == a % b
        rc == c % d
    IN  IF qa # qc THEN qa < qc
        ELSE IF rc = 0 THEN FALSE
        ELSE IF ra = 0 THEN TRUE
        ELSE FracLess(d, rc, b, ra)

\* The number of d in lo .. hi-1 with cos^2(angle) < cos^2((d + 0.5) degrees),
\* where cos^2(angle) = num2 / sq: the acute angle rounded to the nearest
\* degree.  Cos2Half decreases, so the d that qualify form a prefix.
RECURSIVE AcuteFromCos2(_, _, _, _)
AcuteFromCos2(num2, sq, lo, hi) ==
    IF lo = hi THEN lo
    ELSE LET mid == (lo + hi) \div 2
         IN  IF FracLess(num2, sq, Cos2Half[mid + 1], 1000000)
             THEN AcuteFromCos2(num2, sq, mid + 1, hi)
             ELSE AcuteFromCos2(num2, sq, lo, mid)

\* The number of d in lo .. hi-1 with tan((d + 0.5) degrees) < ay / ax: the
\* angle of the direction (ax, ay), ax >= 0 and ay >= 0, rounded to the
\* nearest degree.  TanHalf increases, so the d that qualify form a prefix.
RECURSIVE AcuteFromTan(_, _, _, _)
AcuteFromTan(ay, ax, lo, hi) ==
    IF lo = hi THEN lo
    ELSE LET mid == (lo + hi) \div 2
         IN  IF TanHalf[mid + 1] * ax < ay * 10000
             THEN AcuteFromTan(ay, ax, mid + 1, hi)
             ELSE AcuteFromTan(ay, ax, lo, mid)

\* Math.acos(num / sqrt(sq)) * 180 / PI, rounded to the nearest degree, in
\* DegUnit; 0/0 is NaN and so is its arccosine.  The quotient is one of
\* doubles: pastOne says that rounding took it outside [-1, 1], where
\* Math.acos is NaN too.
AcosDegrees(num, sq, pastOne) ==
    IF sq = 0 \/ pastOne THEN NaN
    ELSE LET acute == AcuteFromCos2(num * num, sq, 0, 90)
         IN  DegUnit * (IF num >= 0 THEN acute ELSE 180 - acute)

\* Math.atan2(y, x) * 180 / PI, rounded to the nearest degree, in DegUnit,
\* in -180..180; atan2(0, 0) is 0.
Atan2Degrees(y, x) ==
    LET acute == AcuteFromTan(Abs(y), Abs(x), 0, 90)
    IN  DegUnit * (IF x >= 0
                   THEN (IF y >= 0 THEN acute ELSE -acute)
                   ELSE (IF y >= 0 THEN 180 - acute ELSE acute - 180))

(***************************************************************************)
(* Geometry utilities (poseUtils.js).                                      *)
(***************************************************************************)
\* calculateAngle without the reflection of angles above 180 degrees.
calculateAngleNoReflection(a, b, c) ==
    LET radians == Atan2Degrees(c.y - b.y, c.x - b.x) - Atan2Degrees(a.y - b.y, a.x - b.x)
    IN  Abs(radians)

\* calculateAngle without Math.abs: the signed difference of the bearings.
calculateAngleSigned(a, b, c) ==
    LET radians == Atan2Degrees(c.y - b.y, c.x - b.x) - Atan2Degrees(a.y - b.y, a.x - b.x)
    IN  IF radians > 180 * DegUnit THEN 360 * DegUnit - radians ELSE radians

calculateAngle(a, b, c) ==
    LET radians == Atan2Degrees(c.y - b.y, c.x - b.x) - Atan2Degrees(a.y - b.y, a.x - b.x)
        angle == Abs(radians)
    IN  IF angle > 180 * DegUnit THEN 360 * DegUnit - angle ELSE angle

\* dotProduct / (magnitudeBA * magnitudeBC) divides a rounded sum of
\* products by a product of two rounded square roots.  For parallel vectors
\* the exact quotient is 1 or -1, and the computed one can be
\* 1.0000000000000002, whose arccosine is NaN.  QuotientPastOne holds the
\* point triples <<a, b, c>> (coordinates in Unit) for which IEEE double
\* arithmetic does so, among all the triples with parallel vectors that the
\* input sets and the frame catalogues below contain; the other parallel
\* triples give a quotient within [-1, 1] and an angle that rounds to 0 or
\* 180 degrees.
QuotientPastOne ==
    {<<<<3, -1, -3>>, <<0, 0, 0>>, <<3, -1, -3>>>>,
     <<<<-2, 0, 1>>, <<1, -1, 0>>, <<-2, 0, 1>>>>,
     <<<<0, 0, -3>>, <<1, -1, 0>>, <<0, 0, -3>>>>,
     <<<<0, 2, 1>>, <<1, -1, 0>>, <<0, 2, 1>>>>}

Coordinates(p) == <<p.x, p.y, p.z>>

\* calculate3DAngle taking its second vector from a, not from b.
calculate3DAngleFromA(a, b, c) ==
    LET vectorBA == [x |-> a.x - b.x, y |-> a.y - b.y, z |-> a.z - b.z]
        vectorBC == [x |-> c.x - a.x, y |-> c.y - a.y, z |-> c.z - a.z]
        dotProduct == vectorBA.x * vectorBC.x + vectorBA.y * vectorBC.y + vectorBA.z * vectorBC.z
        sqMagnitudeBA == vectorBA.x * vectorBA.x + vectorBA.y * vectorBA.y + vectorBA.z * vectorBA.z
        sqMagnitudeBC == vectorBC.x * vectorBC.x + vectorBC.y * vectorBC.y + vectorBC.z * vectorBC.z
    IN  AcosDegrees(dotProduct, sqMagnitudeBA * sqMagnitudeBC,
                    <<Coordinates(a), Coordinates(b), Coordinates(c)>> \in QuotientPastOne)

calculate3DAngle(a, b, c) ==
    LET vectorBA == [x |-> a.x - b.x, y |-> a.y - b.y, z |-> a.z - b.z]
        vectorBC == [x |-> c.x - b.x, y |-> c.y - b.y, z |-> c.z - b.z]
        dotProduct == vectorBA.x * vectorBC.x + vectorBA.y * vectorBC.y + vectorBA.z * vectorBC.z
        sqMagnitudeBA == vectorBA.x * vectorBA.x + vectorBA.y * vectorBA.y + vectorBA.z * vectorBA.z
        sqMagnitudeBC == vectorBC.x * vectorBC.x + vectorBC.y * vectorBC.y + vectorBC.z * vectorBC.z
    IN  AcosDegrees(dotProduct, sqMagnitudeBA * sqMagnitudeBC,
                    <<Coordinates(a), Coordinates(b), Coordinates(c)>> \in QuotientPastOne)

\* A landmark the frame does not hold (an index past its end).
Undefined == [undefined |-> TRUE]

\* The outcome of a call that throws: reading a property of undefined or
\* destructuring null raises a TypeError that the function does not catch.
TypeError == [raised |-> "TypeError"]
IsUndefined(point) == "undefined" \in DOMAIN point

\* isPointVisible with >= in place of >: a point at the threshold counts.
isPointVisibleAtThreshold(point, minConfidence) ==
    "visibility" \in DOMAIN point
    /\ (Gt(point.visibility, minConfidence) \/ point.visibility = minConfidence)

isPointVisible(point, minConfidence) ==
    "visibility" \in DOMAIN point /\ Gt(point.visibility, minConfidence)

(***************************************************************************)
(* Landmark accessor (poseUtils.js).  A frame is NullLandmarks (null or    *)
(* undefined) or an array, a function on 0 .. length-1.                    *)
(***************************************************************************)
NullLandmarks == [kind |-> "null"]
Array(items) == [kind |-> "array", items |-> items]
IsNull(v) == "kind" \in DOMAIN v /\ v.kind = "null"
\* landmarks.length: one more than the highest index, 0 for an empty array.
Length(landmarks) ==
    IF DOMAIN landmarks.items = {} THEN 0
    ELSE (CHOOSE i \in DOMAIN landmarks.items :
              \A j \in DOMAIN landmarks.items : j <= i) + 1

\* landmarkIndices with the left and right sides exchanged.
landmarkIndicesMirrored ==
    [nose |-> 0, leftEye |-> 2, rightEye |-> 1, leftEar |-> 4, rightEar |-> 3,
     leftShoulder |-> 6, rightShoulder |-> 5, leftElbow |-> 8, rightElbow |-> 7,
     leftWrist |-> 10, rightWrist |-> 9, leftHip |-> 12, rightHip |-> 11,
     leftKnee |-> 14, rightKnee |-> 13, leftAnkle |-> 16, rightAnkle |-> 15]

landmarkIndices ==
    [nose |-> 0, leftEye |-> 1, rightEye |-> 2, leftEar |-> 3, rightEar |-> 4,
     leftShoulder |-> 5, rightShoulder |-> 6, leftElbow |-> 7, rightElbow |-> 8,
     leftWrist |-> 9, rightWrist |-> 10, leftHip |-> 11, rightHip |-> 12,
     leftKnee |-> 13, rightKnee |-> 14, leftAnkle |-> 15, rightAnkle |-> 16]

getNamedLandmarks(landmarks) ==
    IF IsNull(landmarks) \/ Length(landmarks) = 0 THEN NullLandmarks
    ELSE [name \in DOMAIN landmarkIndices |->
             IF landmarkIndices[name] \in DOMAIN landmarks.items
             THEN landmarks.items[landmarkIndices[name]]
             ELSE Undefined]

\* Componentwise mean of two points, as the evaluators build midShoulder,
\* midHip and midEye.
MidPoint(a, b) == [x |-> (a.x + b.x) \div 2, y |-> (a.y + b.y) \div 2, z |-> (a.z + b.z) \div 2]

(***************************************************************************)
(* Squat rules.                                                            *)
(***************************************************************************)
SQUAT_PHASES ==
    [STANDING |-> "standing", DESCENDING |-> "descending", BOTTOM |-> "bottom", ASCENDING |-> "ascending"]

\* SquatTHRESHOLDS with a confidence threshold of 0.4.
SquatTHRESHOLDSLowConfidence ==
    [MIN_KNEE_ANGLE |-> 70 * DegUnit, MAX_KNEE_ANGLE |-> 100 * DegUnit,
     MIN_HIP_ANGLE |-> 70 * DegUnit, MAX_HIP_ANGLE |-> 110 * DegUnit,
     MAX_BACK_LEAN |-> 45 * DegUnit,
     MAX_KNEE_FORWARD |-> Unit \div 10,
     MAX_KNEE_INWARD |-> Unit \div 10,
     CONFIDENCE_THRESHOLD |-> 4]

\* SquatTHRESHOLDS with a minimum knee angle of 90 degrees.
SquatTHRESHOLDSMinKnee90 ==
    [MIN_KNEE_ANGLE |-> 90 * DegUnit, MAX_KNEE_ANGLE |-> 100 * DegUnit,
     MIN_HIP_ANGLE |-> 70 * DegUnit, MAX_HIP_ANGLE |-> 110 * DegUnit,
     MAX_BACK_LEAN |-> 45 * DegUnit,
     MAX_KNEE_FORWARD |-> Unit \div 10,
     MAX_KNEE_INWARD |-> Unit \div 10,
     CONFIDENCE_THRESHOLD |-> VisUnit \div 2]

SquatTHRESHOLDS ==
    [MIN_KNEE_ANGLE |-> 70 * DegUnit, MAX_KNEE_ANGLE |-> 100 * DegUnit,
     MIN_HIP_ANGLE |-> 70 * DegUnit, MAX_HIP_ANGLE |-> 110 * DegUnit,
     MAX_BACK_LEAN |-> 45 * DegUnit,
     MAX_KNEE_FORWARD |-> Unit \div 10,
     MAX_KNEE_INWARD |-> Unit \div 10,
     CONFIDENCE_THRESHOLD |-> VisUnit \div 2]

\* The default minConfidence of isPointVisible, 0.5.
DefaultMinConfidence == VisUnit \div 2

\* SquatPhaseDecision reading a missing previous hip height as 1 in the
\* descending test too.
SquatPhaseDecisionMissingAsOne(avgKneeAngle, hipHeight, prevPhase, prevHipHeight) ==
    IF Gt(avgKneeAngle, 160 * DegUnit) THEN SQUAT_PHASES.STANDING
    ELSE IF Lt(avgKneeAngle, 110 * DegUnit) /\ Gt(hipHeight, OrElse(prevHipHeight, 1 * Unit))
         THEN SQUAT_PHASES.DESCENDING
    ELSE IF Lt(avgKneeAngle, 110 * DegUnit) /\ Lt(hipHeight, OrElse(prevHipHeight, 1 * Unit))
         THEN SQUAT_PHASES.ASCENDING
    ELSE prevPhase

\* SquatPhaseDecision returning to standing only from ascending.
SquatPhaseDecisionInOrder(avgKneeAngle, hipHeight, prevPhase, prevHipHeight) ==
    IF Gt(avgKneeAngle, 160 * DegUnit)
       /\ prevPhase \in {SQUAT_PHASES.ASCENDING, SQUAT_PHASES.STANDING} THEN SQUAT_PHASES.STANDING
    ELSE IF Lt(avgKneeAngle, 110 * DegUnit) /\ Gt(hipHeight, OrElse(prevHipHeight, 0))
         THEN SQUAT_PHASES.DESCENDING
    ELSE IF Lt(avgKneeAngle, 110 * DegUnit) /\ Lt(hipHeight, OrElse(prevHipHeight, 1 * Unit))
         THEN SQUAT_PHASES.ASCENDING
    ELSE prevPhase

\* The phase chosen from the knee angle and the hip height, before the
\* bottom promotion.
SquatPhaseDecision(avgKneeAngle, hipHeight, prevPhase, prevHipHeight) ==
    IF Gt(avgKneeAngle, 160 * DegUnit) THEN SQUAT_PHASES.STANDING
    ELSE IF Lt(avgKneeAngle, 110 * DegUnit) /\ Gt(hipHeight, OrElse(prevHipHeight, 0))
         THEN SQUAT_PHASES.DESCENDING
    ELSE IF Lt(avgKneeAngle, 110 * DegUnit) /\ Lt(hipHeight, OrElse(prevHipHeight, 1 * Unit))
         THEN SQUAT_PHASES.ASCENDING
    ELSE prevPhase

\* The bottom promotion without its test of the previous phase.
SquatBottomPromotionAnyPrev(phase, hipHeight, prevPhase, prevHipHeight) ==
    IF phase = SQUAT_PHASES.DESCENDING /\ Lt(hipHeight, OrElse(prevHipHeight, 1 * Unit))
    THEN SQUAT_PHASES.BOTTOM
    ELSE phase

\* The bottom promotion at the turnaround: the hips rise after a descending
\* frame, whichever of descending and ascending was chosen.
SquatBottomPromotionTurnaround(phase, hipHeight, prevPhase, prevHipHeight) ==
    IF phase \in {SQUAT_PHASES.DESCENDING, SQUAT_PHASES.ASCENDING}
       /\ prevPhase = SQUAT_PHASES.DESCENDING
       /\ Lt(hipHeight, OrElse(prevHipHeight, 1 * Unit))
    THEN SQUAT_PHASES.BOTTOM
    ELSE phase

\* The bottom promotion that ends determineSquatPhase.
SquatBottomPromotion(phase, hipHeight, prevPhase, prevHipHeight) ==
    IF phase = SQUAT_PHASES.DESCENDING /\ prevPhase = SQUAT_PHASES.DESCENDING
       /\ Lt(hipHeight, OrElse(prevHipHeight, 1 * Unit))
    THEN SQUAT_PHASES.BOTTOM
    ELSE phase

SquatClassifierVisible(n) ==
    /\ isPointVisible(n.leftHip, DefaultMinConfidence)
    /\ isPointVisible(n.rightHip, DefaultMinConfidence)
    /\ isPointVisible(n.leftKnee, DefaultMinConfidence)
    /\ isPointVisible(n.rightKnee, DefaultMinConfidence)
    /\ isPointVisible(n.leftAnkle, DefaultMinConfidence)
    /\ isPointVisible(n.rightAnkle, DefaultMinConfidence)

SquatAvgKneeAngle(n) ==
    LET leftKneeAngle == calculate3DAngle(n.leftHip, n.leftKnee, n.leftAnkle)
        rightKneeAngle == calculate3DAngle(n.rightHip, n.rightKnee, n.rightAnkle)
    IN  Mean(leftKneeAngle, rightKneeAngle)

\* determineSquatPhase returning the new hip height only when the phase
\* changes.
determineSquatPhaseStaleMetric(landmarks, prevPhase, prevHipHeight) ==
    LET namedLandmarks == getNamedLandmarks(landmarks) IN
    IF IsNull(namedLandmarks) THEN [phase |-> prevPhase, hipHeight |-> prevHipHeight]
    ELSE IF ~SquatClassifierVisible(namedLandmarks)
         THEN [phase |-> prevPhase, hipHeight |-> prevHipHeight]
    ELSE LET hipHeight == Mean(namedLandmarks.leftHip.y, namedLandmarks.rightHip.y)
             avgKneeAngle == SquatAvgKneeAngle(namedLandmarks)
             phase == SquatPhaseDecision(avgKneeAngle, hipHeight, prevPhase, prevHipHeight)
             final == SquatBottomPromotion(phase, hipHeight, prevPhase, prevHipHeight)
         IN  [phase |-> final,
              hipHeight |-> IF final = prevPhase THEN prevHipHeight ELSE hipHeight]

determineSquatPhase(landmarks, prevPhase, prevHipHeight) ==
    LET namedLandmarks == getNamedLandmarks(landmarks) IN
    IF IsNull(namedLandmarks) THEN [phase |-> prevPhase, hipHeight |-> prevHipHeight]
    ELSE IF ~SquatClassifierVisible(namedLandmarks)
         THEN [phase |-> prevPhase, hipHeight |-> prevHipHeight]
    ELSE LET hipHeight == Mean(namedLandmarks.leftHip.y, namedLandmarks.rightHip.y)
             avgKneeAngle == SquatAvgKneeAngle(namedLandmarks)
             phase == SquatPhaseDecision(avgKneeAngle, hipHeight, prevPhase, prevHipHeight)
         IN  [phase |-> SquatBottomPromotion(phase, hipHeight, prevPhase, prevHipHeight),
              hipHeight |-> hipHeight]

\* issues.push(issue) when the check is violated.
Push(issues, violated, issue) == IF violated THEN Append(issues, issue) ELSE issues

\* SquatIssues without the break that ends the bottom case: the checks of
\* the descending/ascending case run after it.
SquatIssuesFallThrough(phase, n, leftKneeAngle, rightKneeAngle, leftHipAngle, rightHipAngle, backAngle) ==
    LET T == SquatTHRESHOLDS
        kneesInward == \/ Abs(n.leftKnee.x - n.leftAnkle.x) > T.MAX_KNEE_INWARD
                       \/ Abs(n.rightKnee.x - n.rightAnkle.x) > T.MAX_KNEE_INWARD
    IN  IF phase = SQUAT_PHASES.BOTTOM THEN
            LET i1 == Push(<<>>, Gt(leftKneeAngle, T.MAX_KNEE_ANGLE) \/ Gt(rightKneeAngle, T.MAX_KNEE_ANGLE),
                           "Knees not bent enough")
                i2 == Push(i1, Lt(leftKneeAngle, T.MIN_KNEE_ANGLE) \/ Lt(rightKneeAngle, T.MIN_KNEE_ANGLE),
                           "Knees bent too much")
                i3 == Push(i2, Gt(leftHipAngle, T.MAX_HIP_ANGLE) \/ Gt(rightHipAngle, T.MAX_HIP_ANGLE),
                           "Hips not bent enough")
                i4 == Push(i3, Lt(leftHipAngle, T.MIN_HIP_ANGLE) \/ Lt(rightHipAngle, T.MIN_HIP_ANGLE),
                           "Hips bent too much")
                i5 == Push(i4, Gt(backAngle, T.MAX_BACK_LEAN), "Back leaning too far forward")
                i6 == Push(i5, \/ n.leftKnee.z < n.leftAnkle.z - T.MAX_KNEE_FORWARD
                               \/ n.rightKnee.z < n.rightAnkle.z - T.MAX_KNEE_FORWARD,
                           "Knees too far forward of toes")
                i7 == Push(i6, kneesInward, "Knees not aligned with toes")
            IN  Push(Push(i7, Gt(backAngle, T.MAX_BACK_LEAN), "Back leaning too far forward"),
                     kneesInward, "Knees not aligned with toes")
        ELSE IF phase \in {SQUAT_PHASES.DESCENDING, SQUAT_PHASES.ASCENDING} THEN
            Push(Push(<<>>, Gt(backAngle, T.MAX_BACK_LEAN), "Back leaning too far forward"),
                 kneesInward, "Knees not aligned with toes")
        ELSE IF phase = SQUAT_PHASES.STANDING THEN
            Push(Push(<<>>, Lt(leftKneeAngle, 160 * DegUnit) \/ Lt(rightKneeAngle, 160 * DegUnit),
                      "Not fully standing between reps"),
                 Gt(backAngle, 20 * DegUnit), "Not standing upright between reps")
        ELSE <<>>

SquatIssues(phase, n, leftKneeAngle, rightKneeAngle, leftHipAngle, rightHipAngle, backAngle) ==
    LET T == SquatTHRESHOLDS
        kneesInward == \/ Abs(n.leftKnee.x - n.leftAnkle.x) > T.MAX_KNEE_INWARD
                       \/ Abs(n.rightKnee.x - n.rightAnkle.x) > T.MAX_KNEE_INWARD
    IN  IF phase = SQUAT_PHASES.BOTTOM THEN
            LET i1 == Push(<<>>, Gt(leftKneeAngle, T.MAX_KNEE_ANGLE) \/ Gt(rightKneeAngle, T.MAX_KNEE_ANGLE),
                           "Knees not bent enough")
                i2 == Push(i1, Lt(leftKneeAngle, T.MIN_KNEE_ANGLE) \/ Lt(rightKneeAngle, T.MIN_KNEE_ANGLE),
                           "Knees bent too much")
                i3 == Push(i2, Gt(leftHipAngle, T.MAX_HIP_ANGLE) \/ Gt(rightHipAngle, T.MAX_HIP_ANGLE),
                           "Hips not bent enough")
                i4 == Push(i3, Lt(leftHipAngle, T.MIN_HIP_ANGLE) \/ Lt(rightHipAngle, T.MIN_HIP_ANGLE),
                           "Hips bent too much")
                i5 == Push(i4, Gt(backAngle, T.MAX_BACK_LEAN), "Back leaning too far forward")
                i6 == Push(i5, \/ n.leftKnee.z < n.leftAnkle.z - T.MAX_KNEE_FORWARD
                               \/ n.rightKnee.z < n.rightAnkle.z - T.MAX_KNEE_FORWARD,
                           "Knees too far forward of toes")
            IN  Push(i6, kneesInward, "Knees not aligned with toes")
        ELSE IF phase \in {SQUAT_PHASES.DESCENDING, SQUAT_PHASES.ASCENDING} THEN
            Push(Push(<<>>, Gt(backAngle, T.MAX_BACK_LEAN), "Back leaning too far forward"),
                 kneesInward, "Knees not aligned with toes")
        ELSE IF phase = SQUAT_PHASES.STANDING THEN
            Push(Push(<<>>, Lt(leftKneeAngle, 160 * DegUnit) \/ Lt(rightKneeAngle, 160 * DegUnit),
                      "Not fully standing between reps"),
                 Gt(backAngle, 20 * DegUnit), "Not standing upright between reps")
        ELSE <<>>

\* evaluateSquatForm without its test of namedLandmarks: destructuring null
\* throws.
evaluateSquatFormNoNullCheck(landmarks, phase) ==
    LET namedLandmarks == getNamedLandmarks(landmarks) IN
    IF IsNull(namedLandmarks) THEN TypeError
    ELSE LET n == namedLandmarks
             requiredLandmarks == <<n.leftShoulder, n.rightShoulder, n.leftHip, n.rightHip,
                                    n.leftKnee, n.rightKnee, n.leftAnkle, n.rightAnkle>>
         IN
         IF \E i \in DOMAIN requiredLandmarks :
                ~isPointVisible(requiredLandmarks[i], SquatTHRESHOLDS.CONFIDENCE_THRESHOLD)
         THEN [isCorrect |-> FALSE, issues |-> <<"Some key landmarks not visible">>]
         ELSE LET leftKneeAngle == calculate3DAngle(n.leftHip, n.leftKnee, n.leftAnkle)
                  rightKneeAngle == calculate3DAngle(n.rightHip, n.rightKnee, n.rightAnkle)
                  leftHipAngle == calculate3DAngle(n.leftShoulder, n.leftHip, n.leftKnee)
                  rightHipAngle == calculate3DAngle(n.rightShoulder, n.rightHip, n.rightKnee)
                  midShoulder == MidPoint(n.leftShoulder, n.rightShoulder)
                  midHip == MidPoint(n.leftHip, n.rightHip)
                  verticalRef == [x |-> midHip.x, y |-> 0, z |-> midHip.z]
                  backAngle == calculateAngle(verticalRef, midHip, midShoulder)
                  issues == SquatIssues(phase, n, leftKneeAngle, rightKneeAngle,
                                        leftHipAngle, rightHipAngle, backAngle)
              IN  [isCorrect |-> Len(issues) = 0,
                   issues |-> issues,
                   angles |-> [leftKnee |-> leftKneeAngle, rightKnee |-> rightKneeAngle,
                               leftHip |-> leftHipAngle, rightHip |-> rightHipAngle,
                               back |-> backAngle]]

evaluateSquatForm(landmarks, phase) ==
    LET namedLandmarks == getNamedLandmarks(landmarks) IN
    IF IsNull(namedLandmarks) THEN [isCorrect |-> FALSE, issues |-> <<"No landmarks detected">>]
    ELSE LET n == namedLandmarks
             requiredLandmarks == <<n.leftShoulder, n.rightShoulder, n.leftHip, n.rightHip,
                                    n.leftKnee, n.rightKnee, n.leftAnkle, n.rightAnkle>>
         IN
         IF \E i \in DOMAIN requiredLandmarks :
                ~isPointVisible(requiredLandmarks[i], SquatTHRESHOLDS.CONFIDENCE_THRESHOLD)
         THEN [isCorrect |-> FALSE, issues |-> <<"Some key landmarks not visible">>]
         ELSE LET leftKneeAngle == calculate3DAngle(n.leftHip, n.leftKnee, n.leftAnkle)
                  rightKneeAngle == calculate3DAngle(n.rightHip, n.rightKnee, n.rightAnkle)
                  leftHipAngle == calculate3DAngle(n.leftShoulder, n.leftHip, n.leftKnee)
                  rightHipAngle == calculate3DAngle(n.rightShoulder, n.rightHip, n.rightKnee)
                  midShoulder == MidPoint(n.leftShoulder, n.rightShoulder)
                  midHip == MidPoint(n.leftHip, n.rightHip)
                  verticalRef == [x |-> midHip.x, y |-> 0, z |-> midHip.z]
                  backAngle == calculateAngle(verticalRef, midHip, midShoulder)
                  issues == SquatIssues(phase, n, leftKneeAngle, rightKneeAngle,
                                        leftHipAngle, rightHipAngle, backAngle)
              IN  [isCorrect |-> Len(issues) = 0,
                   issues |-> issues,
                   angles |-> [leftKnee |-> leftKneeAngle, rightKnee |-> rightKneeAngle,
                               leftHip |-> leftHipAngle, rightHip |-> rightHipAngle,
                               back |-> backAngle]]

(***************************************************************************)
(* Push-up rules (pushupRules.js).                                         *)
(***************************************************************************)
PUSHUP_PHASES ==
    [TOP |-> "top", DESCENDING |-> "descending", BOTTOM |-> "bottom", ASCENDING |-> "ascending"]

\* PushupTHRESHOLDS asking for 160 degrees of elbow extension at the top.
PushupTHRESHOLDSTop160 ==
    [MIN_ELBOW_ANGLE |-> 70 * DegUnit, MAX_ELBOW_ANGLE |-> 100 * DegUnit,
     MIN_TOP_ELBOW_ANGLE |-> 160 * DegUnit,
     MAX_BACK_SAG |-> 15 * DegUnit, MAX_BACK_PIKE |-> 15 * DegUnit,
     MAX_NECK_ANGLE |-> 30 * DegUnit,
     CONFIDENCE_THRESHOLD |-> VisUnit \div 2]

PushupTHRESHOLDS ==
    [MIN_ELBOW_ANGLE |-> 70 * DegUnit, MAX_ELBOW_ANGLE |-> 100 * DegUnit,
     MIN_TOP_ELBOW_ANGLE |-> 150 * DegUnit,
     MAX_BACK_SAG |-> 15 * DegUnit, MAX_BACK_PIKE |-> 15 * DegUnit,
     MAX_NECK_ANGLE |-> 30 * DegUnit,
     CONFIDENCE_THRESHOLD |-> VisUnit \div 2]

\* PushupPhaseDecision without the case of a null previous elbow angle.
PushupPhaseDecisionNoNull(avgElbowAngle, prevPhase, prevElbowAngle) ==
    IF Gt(avgElbowAngle, 150 * DegUnit) THEN PUSHUP_PHASES.TOP
    ELSE IF Lt(avgElbowAngle, 120 * DegUnit) /\ Lt(avgElbowAngle, prevElbowAngle)
         THEN PUSHUP_PHASES.DESCENDING
    ELSE IF Lt(avgElbowAngle, 120 * DegUnit) /\ Gt(avgElbowAngle, prevElbowAngle)
         THEN PUSHUP_PHASES.ASCENDING
    ELSE prevPhase

\* The phase chosen from the elbow angle and its change, before the bottom
\* promotion.
PushupPhaseDecision(avgElbowAngle, prevPhase, prevElbowAngle) ==
    IF Gt(avgElbowAngle, 150 * DegUnit) THEN PUSHUP_PHASES.TOP
    ELSE IF Lt(avgElbowAngle, 120 * DegUnit)
            /\ (prevElbowAngle = Null \/ Lt(avgElbowAngle, prevElbowAngle))
         THEN PUSHUP_PHASES.DESCENDING
    ELSE IF Lt(avgElbowAngle, 120 * DegUnit) /\ Gt(avgElbowAngle, prevElbowAngle)
         THEN PUSHUP_PHASES.ASCENDING
    ELSE prevPhase

\* The bottom promotion at the turnaround: the elbows open after a
\* descending frame, whichever of descending and ascending was chosen.
PushupBottomPromotionTurnaround(phase, avgElbowAngle, prevPhase, prevElbowAngle) ==
    IF phase \in {PUSHUP_PHASES.DESCENDING, PUSHUP_PHASES.ASCENDING}
       /\ prevPhase = PUSHUP_PHASES.DESCENDING
       /\ Gt(avgElbowAngle, prevElbowAngle)
    THEN PUSHUP_PHASES.BOTTOM
    ELSE phase

\* The bottom promotion that ends determinePushupPhase.
PushupBottomPromotion(phase, avgElbowAngle, prevPhase, prevElbowAngle) ==
    IF phase = PUSHUP_PHASES.DESCENDING /\ prevPhase = PUSHUP_PHASES.DESCENDING
       /\ Gt(avgElbowAngle, prevElbowAngle)
    THEN PUSHUP_PHASES.BOTTOM
    ELSE phase

PushupClassifierVisible(n) ==
    /\ isPointVisible(n.leftShoulder, DefaultMinConfidence)
    /\ isPointVisible(n.rightShoulder, DefaultMinConfidence)
    /\ isPointVisible(n.leftElbow, DefaultMinConfidence)
    /\ isPointVisible(n.rightElbow, DefaultMinConfidence)
    /\ isPointVisible(n.leftWrist, DefaultMinConfidence)
    /\ isPointVisible(n.rightWrist, DefaultMinConfidence)

PushupAvgElbowAngle(n) ==
    LET leftElbowAngle == calculate3DAngle(n.leftShoulder, n.leftElbow, n.leftWrist)
        rightElbowAngle == calculate3DAngle(n.rightShoulder, n.rightElbow, n.rightWrist)
    IN  Mean(leftElbowAngle, rightElbowAngle)

determinePushupPhase(landmarks, prevPhase, prevElbowAngle) ==
    LET namedLandmarks == getNamedLandmarks(landmarks) IN
    IF IsNull(namedLandmarks) THEN [phase |-> prevPhase, elbowAngle |-> prevElbowAngle]
    ELSE IF ~PushupClassifierVisible(namedLandmarks)
         THEN [phase |-> prevPhase, elbowAngle |-> prevElbowAngle]
    ELSE LET avgElbowAngle == PushupAvgElbowAngle(namedLandmarks)
             phase == PushupPhaseDecision(avgElbowAngle, prevPhase, prevElbowAngle)
         IN  [phase |-> PushupBottomPromotion(phase, avgElbowAngle, prevPhase, prevElbowAngle),
              elbowAngle |-> avgElbowAngle]

\* PushBack reporting a sag of exactly MAX_BACK_SAG as well.
PushBackInclusive(issues, backAngle) ==
    IF ~Lt(backAngle, PushupTHRESHOLDS.MAX_BACK_SAG) THEN Append(issues, "Back sagging too much")
    ELSE IF Lt(backAngle, -PushupTHRESHOLDS.MAX_BACK_PIKE) THEN Append(issues, "Hips too high (piking)")
    ELSE issues

\* The back-alignment check shared by the three push-up phase groups:
\* if (backAngle > MAX_BACK_SAG) ... else if (backAngle < -MAX_BACK_PIKE) ...
PushBack(issues, backAngle) ==
    IF Gt(backAngle, PushupTHRESHOLDS.MAX_BACK_SAG) THEN Append(issues, "Back sagging too much")
    ELSE IF Lt(backAngle, -PushupTHRESHOLDS.MAX_BACK_PIKE) THEN Append(issues, "Hips too high (piking)")
    ELSE issues

PushNeck(issues, neckAngle) ==
    Push(issues, Gt(Abs(neckAngle), PushupTHRESHOLDS.MAX_NECK_ANGLE), "Neck not in neutral position")

\* PushupIssues with the descending/ascending checks as the default case of
\* the switch.
PushupIssuesDefaultCase(phase, leftElbowAngle, rightElbowAngle, backAngle, neckAngle) ==
    LET T == PushupTHRESHOLDS IN
    IF phase = PUSHUP_PHASES.BOTTOM THEN
        LET i1 == Push(<<>>, Gt(leftElbowAngle, T.MAX_ELBOW_ANGLE) \/ Gt(rightElbowAngle, T.MAX_ELBOW_ANGLE),
                       "Not going deep enough")
            i2 == Push(i1, Lt(leftElbowAngle, T.MIN_ELBOW_ANGLE) \/ Lt(rightElbowAngle, T.MIN_ELBOW_ANGLE),
                       "Elbows bent too much")
        IN  PushNeck(PushBack(i2, backAngle), neckAngle)
    ELSE IF phase = PUSHUP_PHASES.TOP THEN
        PushBack(Push(<<>>, \/ Lt(leftElbowAngle, T.MIN_TOP_ELBOW_ANGLE)
                            \/ Lt(rightElbowAngle, T.MIN_TOP_ELBOW_ANGLE),
                      "Arms not fully extended at top"),
                 backAngle)
    ELSE PushNeck(PushBack(<<>>, backAngle), neckAngle)

PushupIssues(phase, leftElbowAngle, rightElbowAngle, backAngle, neckAngle) ==
    LET T == PushupTHRESHOLDS IN
    IF phase = PUSHUP_PHASES.BOTTOM THEN
        LET i1 == Push(<<>>, Gt(leftElbowAngle, T.MAX_ELBOW_ANGLE) \/ Gt(rightElbowAngle, T.MAX_ELBOW_ANGLE),
                       "Not going deep enough")
            i2 == Push(i1, Lt(leftElbowAngle, T.MIN_ELBOW_ANGLE) \/ Lt(rightElbowAngle, T.MIN_ELBOW_ANGLE),
                       "Elbows bent too much")
        IN  PushNeck(PushBack(i2, backAngle), neckAngle)
    ELSE IF phase = PUSHUP_PHASES.TOP THEN
        PushBack(Push(<<>>, \/ Lt(leftElbowAngle, T.MIN_TOP_ELBOW_ANGLE)
                            \/ Lt(rightElbowAngle, T.MIN_TOP_ELBOW_ANGLE),
                      "Arms not fully extended at top"),
                 backAngle)
    ELSE IF phase \in {PUSHUP_PHASES.DESCENDING, PUSHUP_PHASES.ASCENDING} THEN
        PushNeck(PushBack(<<>>, backAngle), neckAngle)
    ELSE <<>>

\* evaluatePushupForm calling a result with a single issue correct.
evaluatePushupFormLenient(landmarks, phase) ==
    LET namedLandmarks == getNamedLandmarks(landmarks) IN
    IF IsNull(namedLandmarks) THEN [isCorrect |-> FALSE, issues |-> <<"No landmarks detected">>]
    ELSE LET n == namedLandmarks
             requiredLandmarks == <<n.leftShoulder, n.rightShoulder, n.leftElbow, n.rightElbow,
                                    n.leftWrist, n.rightWrist, n.leftHip, n.rightHip>>
         IN
         IF \E i \in DOMAIN requiredLandmarks :
                ~isPointVisible(requiredLandmarks[i], PushupTHRESHOLDS.CONFIDENCE_THRESHOLD)
         THEN [isCorrect |-> FALSE, issues |-> <<"Some key landmarks not visible">>]
         ELSE IF IsUndefined(n.leftEye) \/ IsUndefined(n.rightEye) \/ IsUndefined(n.nose)
         THEN TypeError
         ELSE LET leftElbowAngle == calculate3DAngle(n.leftShoulder, n.leftElbow, n.leftWrist)
                  rightElbowAngle == calculate3DAngle(n.rightShoulder, n.rightElbow, n.rightWrist)
                  midShoulder == MidPoint(n.leftShoulder, n.rightShoulder)
                  midHip == MidPoint(n.leftHip, n.rightHip)
                  horizontalRef == [x |-> midShoulder.x + 1 * Unit, y |-> midShoulder.y, z |-> midShoulder.z]
                  backAngle == calculateAngle(horizontalRef, midShoulder, midHip)
                  midEye == MidPoint(n.leftEye, n.rightEye)
                  neckAngle == calculateAngle(midShoulder, n.nose, midEye)
                  issues == PushupIssues(phase, leftElbowAngle, rightElbowAngle, backAngle, neckAngle)
              IN  [isCorrect |-> Len(issues) <= 1,
                   issues |-> issues,
                   angles |-> [leftElbow |-> leftElbowAngle, rightElbow |-> rightElbowAngle,
                               back |-> backAngle, neck |-> neckAngle]]

evaluatePushupForm(landmarks, phase) ==
    LET namedLandmarks == getNamedLandmarks(landmarks) IN
    IF IsNull(namedLandmarks) THEN [isCorrect |-> FALSE, issues |-> <<"No landmarks detected">>]
    ELSE LET n == namedLandmarks
             requiredLandmarks == <<n.leftShoulder, n.rightShoulder, n.leftElbow, n.rightElbow,
                                    n.leftWrist, n.rightWrist, n.leftHip, n.rightHip>>
         IN
         IF \E i \in DOMAIN requiredLandmarks :
                ~isPointVisible(requiredLandmarks[i], PushupTHRESHOLDS.CONFIDENCE_THRESHOLD)
         THEN [isCorrect |-> FALSE, issues |-> <<"Some key landmarks not visible">>]
         ELSE IF IsUndefined(n.leftEye) \/ IsUndefined(n.rightEye) \/ IsUndefined(n.nose)
         THEN TypeError
         ELSE LET leftElbowAngle == calculate3DAngle(n.leftShoulder, n.leftElbow, n.leftWrist)
                  rightElbowAngle == calculate3DAngle(n.rightShoulder, n.rightElbow, n.rightWrist)
                  midShoulder == MidPoint(n.leftShoulder, n.rightShoulder)
                  midHip == MidPoint(n.leftHip, n.rightHip)
                  horizontalRef == [x |-> midShoulder.x + 1 * Unit, y |-> midShoulder.y, z |-> midShoulder.z]
                  backAngle == calculateAngle(horizontalRef, midShoulder, midHip)
                  midEye == MidPoint(n.leftEye, n.rightEye)
                  neckAngle == calculateAngle(midShoulder, n.nose, midEye)
                  issues == PushupIssues(phase, leftElbowAngle, rightElbowAngle, backAngle, neckAngle)
              IN  [isCorrect |-> Len(issues) = 0,
                   issues |-> issues,
                   angles |-> [leftElbow |-> leftElbowAngle, rightElbow |-> rightElbowAngle,
                               back |-> backAngle, neck |-> neckAngle]]

(***************************************************************************)
(* Input frames.  A body is built from its hip heights, the direction of   *)
(* its torso and the pose of each limb; a pose gives, for the joint in the *)
(* middle of the limb, the vectors ba (joint to root) and bc (joint to     *)
(* end) that calculate3DAngle measures.                                    *)
(***************************************************************************)
Vec(x, y, z) == [x |-> x, y |-> y, z |-> z]
Plus(p, v) == [x |-> p.x + v.x, y |-> p.y + v.y, z |-> p.z + v.z]
Minus(p, v) == [x |-> p.x - v.x, y |-> p.y - v.y, z |-> p.z - v.z]
Pose(ba, bc) == [ba |-> ba, bc |-> bc]

P180 == Pose(Vec(0, -4, 0), Vec(0, 4, 0))
P170 == Pose(Vec(-3, -1, -1), Vec(2, 1, 1))
P165 == Pose(Vec(-5, -1, -1), Vec(4, 1, 2))
P150 == Pose(Vec(-4, -2, -2), Vec(2, 0, 2))
P135 == Pose(Vec(-2, -2, 0), Vec(0, 2, 0))
P120 == Pose(Vec(-2, -2, 0), Vec(0, 2, -2))
P100 == Pose(Vec(-6, -2, -1), Vec(0, 3, -2))
P90 == Pose(Vec(0, -4, 0), Vec(4, 0, 0))
\* A limb whose root and joint coincide: the angle at the joint is NaN.
PDegenerate == Pose(Vec(0, 0, 0), Vec(0, 4, 0))

Upright == Vec(0, -6, 0)
Plank == Vec(-6, 0, 0)

\* The seventeen named points of a body, without visibility.
BodyPoints(b) ==
    LET leftHip == Vec(8, b.hipL, 0)
        rightHip == Vec(12, b.hipR, 0)
        leftShoulder == Plus(leftHip, b.torso)
        rightShoulder == Plus(rightHip, b.torso)
        leftKnee == Minus(leftHip, b.legL.ba)
        rightKnee == Minus(rightHip, b.legR.ba)
        leftElbow == Minus(leftShoulder, b.armL.ba)
        rightElbow == Minus(rightShoulder, b.armR.ba)
        nose == Plus(leftShoulder, Vec(2, -4, 0))
    IN  [nose |-> nose,
         leftEye |-> Plus(nose, Vec(-2, -2, 0)), rightEye |-> Plus(nose, Vec(2, -2, 0)),
         leftEar |-> Plus(nose, Vec(-4, 0, 0)), rightEar |-> Plus(nose, Vec(4, 0, 0)),
         leftShoulder |-> leftShoulder, rightShoulder |-> rightShoulder,
         leftElbow |-> leftElbow, rightElbow |-> rightElbow,
         leftWrist |-> Plus(leftElbow, b.armL.bc), rightWrist |-> Plus(rightElbow, b.armR.bc),
         leftHip |-> leftHip, rightHip |-> rightHip,
         leftKnee |-> leftKnee, rightKnee |-> rightKnee,
         leftAnkle |-> Plus(leftKnee, b.legL.bc), rightAnkle |-> Plus(rightKnee, b.legR.bc)]

Point(v, visibility) == [x |-> v.x, y |-> v.y, z |-> v.z, visibility |-> visibility]

\* Visibility 0.9 everywhere, except visibility v at index dim.
Visibility(dim, v) == [i \in 0..32 |-> IF i = dim THEN v ELSE 9]
AllVisible == Visibility(-1, 9)

\* The 33-point frame of body b: the named points at their indices, the
\* sixteen remaining points (hands, feet, face) at a fixed place.
Frame(b, vis) ==
    LET pts == BodyPoints(b) IN
    Array([i \in 0..32 |->
              IF \E name \in DOMAIN landmarkIndices : landmarkIndices[name] = i
              THEN Point(pts[CHOOSE name \in DOMAIN landmarkIndices : landmarkIndices[name] = i], vis[i])
              ELSE Point(Vec(10, 10, 0), vis[i])])

EmptyFrame == Array(<<>>)

HipPairs == {<<y, y>> : y \in {-2, 0, 2, 4, 20, 22}} \cup {<<2, 6>>, <<-4, 4>>}
LegPairs == {<<P180, P180>>, <<P180, P150>>, <<P150, P150>>, <<P135, P100>>,
             <<P100, P100>>, <<P120, P90>>, <<PDegenerate, P100>>}
ArmPairs == {<<P180, P180>>, <<P170, P150>>, <<P150, P135>>, <<P135, P135>>, <<P150, P100>>,
             <<P135, P100>>, <<P100, P100>>, <<P120, P90>>, <<P90, P90>>, <<PDegenerate, P100>>}

SquatBodies ==
    {[hipL |-> hp[1], hipR |-> hp[2], torso |-> Upright, legL |-> lp[1], legR |-> lp[2],
      armL |-> P180, armR |-> P180] : hp \in HipPairs, lp \in LegPairs}
PushupBodies ==
    {[hipL |-> 10, hipR |-> 10, torso |-> t, legL |-> P180, legR |-> P180,
      armL |-> ap[1], armR |-> ap[2]] : t \in {Plank, Upright}, ap \in ArmPairs}

\* The bodies shown with one landmark at a low visibility.
DimBodies ==
    {[hipL |-> 4, hipR |-> 4, torso |-> Upright, legL |-> P100, legR |-> P100, armL |-> P180, armR |-> P180],
     [hipL |-> 10, hipR |-> 10, torso |-> Plank, legL |-> P180, legR |-> P180, armL |-> P100, armR |-> P100]}
\* Visibilities 0.4 and 0.5, at and below the confidence threshold.
DimValues == {4, 5}

VisibleFrames == {Frame(b, AllVisible) : b \in SquatBodies \cup PushupBodies}
DimFrames == {Frame(b, Visibility(i, v)) : b \in DimBodies, i \in 5..16, v \in DimValues}
DetectedFrames == VisibleFrames \cup DimFrames
InputFrames == DetectedFrames \cup {EmptyFrame, NullLandmarks}

\* The frames the pose detector delivers to the frame loop.
LoopHipPairs == {<<0, 0>>, <<2, 2>>, <<4, 4>>, <<2, 6>>}
LoopLegPairs == {<<P180, P180>>, <<P150, P150>>, <<P100, P100>>, <<P120, P90>>}
LoopArmPairs == {<<P180, P180>>, <<P135, P135>>, <<P150, P100>>, <<P100, P100>>, <<P120, P90>>, <<P90, P90>>}
LoopFrames ==
    {Frame(b, AllVisible) : b \in {s \in SquatBodies : <<s.hipL, s.hipR>> \in LoopHipPairs
                                                        /\ <<s.legL, s.legR>> \in LoopLegPairs}}
    \cup {Frame(b, AllVisible) : b \in {s \in PushupBodies : <<s.armL, s.armR>> \in LoopArmPairs}}
    \cup {Frame(b, Visibility(i, 5)) : b \in DimBodies, i \in {5, 7, 11, 13}}

(***************************************************************************)
(* Frames for the form evaluators.  Knee and elbow poses between 60 and    *)
(* 160 degrees, torsos that set the hip angle and the lean of the back,    *)
(* shins that put the knee forward of or beside the ankle, and eye lines   *)
(* that set the neck angle.  An angle at a threshold of the rules lies on  *)
(* the accepted side of it: 70.01 for 70, 99.98 for 100, 109.93 for 110,   *)
(* 150.03 for 150, 160.02 for 160, 14.93 for 15, 19.98 for 20, 29.74 for   *)
(* 30, 45 for 45.                                                          *)
(***************************************************************************)
L60 == Pose(Vec(-7, 5, 5), Vec(0, 4, 0))
L70 == Pose(Vec(-2, 3, -8), Vec(0, 4, 0))
L85 == Pose(Vec(11, 1, 4), Vec(0, 4, 0))
L130 == Pose(Vec(-6, -5, 0), Vec(0, 4, 0))
L140 == Pose(Vec(-5, -6, 0), Vec(0, 4, 0))
L150 == Pose(Vec(-3, 0, -2), Vec(4, 3, 4))
L160 == Pose(Vec(-5, -1, -4), Vec(4, 3, 4))
\* L85 with the ankle 0.15 behind the knee, and with the ankle 0.15 beside it.
L85Forward == Pose(Vec(11, 1, 4), Vec(0, 4, 3))
L85Inward == Pose(Vec(11, 1, 4), Vec(3, 4, 0))

\* With thigh L85: hip angle 90 and lean 10; hip 70; hip 110; hip 60 and
\* lean 20; hip 130 and lean 45; hip 130 and lean 60; hip 90 and lean 45.
TorsoGood == Vec(3, -17, -4)
TorsoHip70 == Vec(-2, -7, 0)
TorsoHip110 == Vec(1, -4, 4)
TorsoHip60 == Vec(-4, -11, -5)
TorsoLean45 == Vec(5, -5, 1)
TorsoLean60 == Vec(12, -7, -4)
TorsoHip90Lean45 == Vec(-3, -3, 9)
\* Push-up backs 15 and 18 degrees off the horizontal.
TorsoSag15 == Vec(-15, -4, 0)
TorsoSag18 == Vec(-6, -2, 0)
\* A push-up with the hips 18 degrees above the line of the shoulders.
TorsoPike18 == Vec(-6, 2, 0)

EvalTorsos == {TorsoGood, TorsoHip70, TorsoHip110, TorsoHip60, TorsoLean45, TorsoLean60,
               TorsoHip90Lean45, Upright}
EvalLegPairs == {<<L85, L85>>, <<L85, P100>>, <<L70, L85>>, <<L60, L85>>, <<L85, L130>>,
                 <<L130, L60>>, <<L85Forward, L85>>, <<L85, L85Inward>>, <<P180, P180>>,
                 <<L160, P180>>, <<P135, P180>>}
EvalArmPairs == {<<P180, P180>>, <<L150, L150>>, <<L140, P180>>, <<P100, P100>>, <<L70, P100>>,
                 <<L60, P90>>, <<P135, L60>>, <<P90, P90>>}
EvalSquatBodies ==
    {[hipL |-> 20, hipR |-> 20, torso |-> t, legL |-> lp[1], legR |-> lp[2],
      armL |-> P180, armR |-> P180] : t \in EvalTorsos, lp \in EvalLegPairs}
EvalPushupBodies ==
    {[hipL |-> 10, hipR |-> 10, torso |-> t, legL |-> P180, legR |-> P180,
      armL |-> ap[1], armR |-> ap[2]] : t \in {Plank, TorsoSag15, TorsoSag18,
                                               TorsoPike18, Upright},
                                         ap \in EvalArmPairs}

\* The frame with its eyes moved to nose + v -+ (0.1, 0, 0): the neck angle
\* is the angle at the nose between the shoulders and the eyes.
WithEyes(frame, v) ==
    LET nose == frame.items[0] IN
    Array([i \in DOMAIN frame.items |->
              IF i = 1 THEN [frame.items[1] EXCEPT !.x = nose.x + v.x - 2, !.y = nose.y + v.y]
              ELSE IF i = 2 THEN [frame.items[2] EXCEPT !.x = nose.x + v.x + 2, !.y = nose.y + v.y]
              ELSE frame.items[i]])
\* Eyes above the nose (neck 180), towards the shoulders (0), and 30 and 40
\* degrees off the line to the shoulders.
EyeLines == {Vec(0, -2, 0), Vec(0, 2, 0), Vec(4, 7, 0), Vec(5, 6, 0)}

\* A 33-slot array whose first three slots (nose and eyes) are empty.
HeadlessFrame ==
    LET full == Frame([hipL |-> 10, hipR |-> 10, torso |-> Plank, legL |-> P180, legR |-> P180,
                       armL |-> P100, armR |-> P100], AllVisible)
    IN  Array([i \in 3..32 |-> full.items[i]])

EvalFrames ==
    {Frame(b, AllVisible) : b \in EvalSquatBodies}
    \cup {WithEyes(Frame(b, AllVisible), v) : b \in EvalPushupBodies, v \in EyeLines}
    \cup {HeadlessFrame}

(***************************************************************************)
(* State.                                                                  *)
(*   PoseDetector component: exerciseType (prop), poseLandmarker (loaded   *)
(*   or not), videoRef (video element mounted or not), prevPhaseRef,       *)
(*   prevValueRef, phase, evaluation, landmarks, and calls, the classifier *)
(*   and evaluator calls made by the last predictWebcam tick.              *)
(*   Direct calls of the four exported functions: fnCall (function and     *)
(*   arguments) and fnRet (its result).                                    *)
(*   Threaded classifier calls: thread, the results of successive calls    *)
(*   each fed with the phase and metric returned by the call before.       *)
(***************************************************************************)
VARIABLES exerciseType, poseLandmarker, videoRef, prevPhaseRef, prevValueRef,
          phase, evaluation, landmarks, calls, fnCall, fnRet, thread

componentVars == <<exerciseType, poseLandmarker, videoRef, prevPhaseRef, prevValueRef,
                   phase, evaluation, landmarks, calls>>
vars == <<exerciseType, poseLandmarker, videoRef, prevPhaseRef, prevValueRef,
          phase, evaluation, landmarks, calls, fnCall, fnRet, thread>>

RestPhase(type) == IF type = "squat" THEN SQUAT_PHASES.STANDING ELSE PUSHUP_PHASES.TOP

NoCall == [fn |-> "none"]
Pending == [done |-> FALSE]

\* useState / useRef initial values of PoseDetector: useRef(null) for the
\* video, and the first render is the loading screen, without the video.
ComponentInit(type) ==
    /\ exerciseType = type
    /\ poseLandmarker = FALSE
    /\ videoRef = FALSE
    /\ prevPhaseRef = RestPhase(type)
    /\ prevValueRef = Null
    /\ phase = RestPhase(type)
    /\ evaluation = [isCorrect |-> TRUE, issues |-> <<>>]
    /\ landmarks = NullLandmarks
    /\ calls = <<>>

Init ==
    /\ \E type \in {"squat", "pushup"} : ComponentInit(type)
    /\ fnCall = NoCall
    /\ fnRet = Pending
    /\ thread = <<>>

(***************************************************************************)
(* PoseDetector actions.                                                   *)
(***************************************************************************)
\* The pose landmarker finishes loading: setPoseLandmarker(landmarker) and
\* setIsLoading(false); the render that follows leaves the loading screen
\* and mounts the video element, which sets videoRef.current.  (When loading
\* fails, the error screen is rendered instead: the landmarker stays null and
\* the video is never mounted, so no modelled state changes.)
initializePoseLandmarker ==
    /\ ~poseLandmarker
    /\ poseLandmarker' = TRUE
    /\ videoRef' = TRUE
    /\ calls' = <<>>
    /\ UNCHANGED <<exerciseType, prevPhaseRef, prevValueRef, phase, evaluation,
                   landmarks, fnCall, fnRet, thread>>

\* The mounted video element goes away (handleStop / onStopDetection, or the
\* error screen after a camera failure): the video ref becomes null.
Unmount ==
    /\ videoRef
    /\ videoRef' = FALSE
    /\ calls' = <<>>
    /\ UNCHANGED <<exerciseType, poseLandmarker, prevPhaseRef, prevValueRef, phase, evaluation,
                   landmarks, fnCall, fnRet, thread>>

\* The classifier and the evaluator of an exercise, and the calls they log.
Classify(type, detectedLandmarks, prevPhase, prevValue) ==
    IF type = "squat"
    THEN LET r == determineSquatPhase(detectedLandmarks, prevPhase, prevValue)
         IN  [phase |-> r.phase, value |-> r.hipHeight]
    ELSE LET r == determinePushupPhase(detectedLandmarks, prevPhase, prevValue)
         IN  [phase |-> r.phase, value |-> r.elbowAngle]

Evaluate(type, detectedLandmarks, newPhase) ==
    IF type = "squat" THEN evaluateSquatForm(detectedLandmarks, newPhase)
    ELSE evaluatePushupForm(detectedLandmarks, newPhase)

\* predictWebcam evaluating a tick without landmarks too: the evaluator is
\* called with null and its result stored.
predictWebcamEvaluatesEmpty(videoReady, newFrame, results) ==
    IF ~poseLandmarker \/ ~videoRef \/ ~videoReady \/ ~newFrame
    THEN /\ calls' = <<>>
         /\ UNCHANGED <<exerciseType, poseLandmarker, videoRef, prevPhaseRef, prevValueRef,
                        phase, evaluation, landmarks, fnCall, fnRet, thread>>
    ELSE IF Len(results) = 0
    THEN /\ evaluation' = Evaluate(exerciseType, NullLandmarks, prevPhaseRef)
         /\ calls' = << [fn |-> "evaluator", landmarks |-> NullLandmarks, phase |-> prevPhaseRef,
                         ret |-> Evaluate(exerciseType, NullLandmarks, prevPhaseRef)] >>
         /\ UNCHANGED <<exerciseType, poseLandmarker, videoRef, prevPhaseRef, prevValueRef,
                        phase, landmarks, fnCall, fnRet, thread>>
    ELSE LET detectedLandmarks == results[1]
             c == Classify(exerciseType, detectedLandmarks, prevPhaseRef, prevValueRef)
             result == Evaluate(exerciseType, detectedLandmarks, c.phase)
         IN  /\ landmarks' = detectedLandmarks
             /\ phase' = IF c.phase # prevPhaseRef THEN c.phase ELSE phase
             /\ prevPhaseRef' = IF c.phase # prevPhaseRef THEN c.phase ELSE prevPhaseRef
             /\ prevValueRef' = c.value
             /\ evaluation' = result
             /\ calls' = << [fn |-> "classifier", landmarks |-> detectedLandmarks,
                             prevPhase |-> prevPhaseRef, prevValue |-> prevValueRef, ret |-> c],
                            [fn |-> "evaluator", landmarks |-> detectedLandmarks,
                             phase |-> c.phase, ret |-> result] >>
             /\ UNCHANGED <<exerciseType, poseLandmarker, videoRef, fnCall, fnRet, thread>>

\* predictWebcam storing the new metric only when the phase changes.
predictWebcamStaleValue(videoReady, newFrame, results) ==
    IF ~poseLandmarker \/ ~videoRef \/ ~videoReady \/ ~newFrame \/ Len(results) = 0
    THEN /\ calls' = <<>>
         /\ UNCHANGED <<exerciseType, poseLandmarker, videoRef, prevPhaseRef, prevValueRef,
                        phase, evaluation, landmarks, fnCall, fnRet, thread>>
    ELSE LET detectedLandmarks == results[1]
             c == Classify(exerciseType, detectedLandmarks, prevPhaseRef, prevValueRef)
             result == Evaluate(exerciseType, detectedLandmarks, c.phase)
         IN  /\ landmarks' = detectedLandmarks
             /\ phase' = IF c.phase # prevPhaseRef THEN c.phase ELSE phase
             /\ prevPhaseRef' = IF c.phase # prevPhaseRef THEN c.phase ELSE prevPhaseRef
             /\ prevValueRef' = IF c.phase # prevPhaseRef THEN c.value ELSE prevValueRef
             /\ evaluation' = result
             /\ calls' = << [fn |-> "classifier", landmarks |-> detectedLandmarks,
                             prevPhase |-> prevPhaseRef, prevValue |-> prevValueRef, ret |-> c],
                            [fn |-> "evaluator", landmarks |-> detectedLandmarks,
                             phase |-> c.phase, ret |-> result] >>
             /\ UNCHANGED <<exerciseType, poseLandmarker, videoRef, fnCall, fnRet, thread>>

\* One tick of the frame loop.  videoReady: the video has dimensions;
\* newFrame: video.currentTime differs from lastVideoTime; results: the
\* list of poses detectForVideo returns (empty, or one 33-point frame).
predictWebcam(videoReady, newFrame, results) ==
    IF ~poseLandmarker \/ ~videoRef \/ ~videoReady \/ ~newFrame \/ Len(results) = 0
    THEN /\ calls' = <<>>
         /\ UNCHANGED <<exerciseType, poseLandmarker, videoRef, prevPhaseRef, prevValueRef,
                        phase, evaluation, landmarks, fnCall, fnRet, thread>>
    ELSE LET detectedLandmarks == results[1]
             c == Classify(exerciseType, detectedLandmarks, prevPhaseRef, prevValueRef)
             result == Evaluate(exerciseType, detectedLandmarks, c.phase)
         IN  /\ landmarks' = detectedLandmarks
             /\ phase' = IF c.phase # prevPhaseRef THEN c.phase ELSE phase
             /\ prevPhaseRef' = IF c.phase # prevPhaseRef THEN c.phase ELSE prevPhaseRef
             /\ prevValueRef' = c.value
             /\ evaluation' = result
             /\ calls' = << [fn |-> "classifier", landmarks |-> detectedLandmarks,
                             prevPhase |-> prevPhaseRef, prevValue |-> prevValueRef, ret |-> c],
                            [fn |-> "evaluator", landmarks |-> detectedLandmarks,
                             phase |-> c.phase, ret |-> result] >>
             /\ UNCHANGED <<exerciseType, poseLandmarker, videoRef, fnCall, fnRet, thread>>

DetectionResults == {<<>>} \cup {<<f>> : f \in LoopFrames}

Next ==
    \/ initializePoseLandmarker
    \/ Unmount
    \/ \E videoReady \in BOOLEAN, newFrame \in BOOLEAN, results \in DetectionResults :
           predictWebcam(videoReady, newFrame, results)

Spec == Init /\ [][Next]_vars

(***************************************************************************)
(* Direct calls of the exported functions: the arguments are drawn in the  *)
(* initial state, the action of the function applies it.                   *)
(***************************************************************************)
SquatPhaseInputs == {"standing", "descending", "bottom", "ascending"}
PushupPhaseInputs == {"top", "descending", "bottom", "ascending"}
\* Phases handed to the evaluators; "null" stands for a null phase.
EvaluatorPhaseInputs == {"standing", "top", "descending", "bottom", "ascending", "null"}
HipHeightInputs == {Null, NaN, -2, 0, 2, 4, 20, 22}
\* Previous elbow angles: none, NaN, 0, and 95, 105, 135, 142.5, 165 and 180 degrees.
ElbowAngleInputs == {Null, NaN, 0} \cup {d * DegUnit : d \in {95, 105, 135, 165, 180}} \cup {285}

\* The local variables of determineSquatPhase when it returns: skipped on
\* the two early returns, else hipHeight, avgKneeAngle and the phase chosen
\* before the bottom promotion.
SquatLocals(lm, prevPhase, prevHipHeight) ==
    LET namedLandmarks == getNamedLandmarks(lm) IN
    IF IsNull(namedLandmarks) THEN [skipped |-> TRUE]
    ELSE IF ~SquatClassifierVisible(namedLandmarks) THEN [skipped |-> TRUE]
    ELSE LET hipHeight == Mean(namedLandmarks.leftHip.y, namedLandmarks.rightHip.y)
             avgKneeAngle == SquatAvgKneeAngle(namedLandmarks)
         IN  [skipped |-> FALSE, hipHeight |-> hipHeight, avgKneeAngle |-> avgKneeAngle,
              phase |-> SquatPhaseDecision(avgKneeAngle, hipHeight, prevPhase, prevHipHeight)]

\* The local variables of determinePushupPhase when it returns.
PushupLocals(lm, prevPhase, prevElbowAngle) ==
    LET namedLandmarks == getNamedLandmarks(lm) IN
    IF IsNull(namedLandmarks) THEN [skipped |-> TRUE]
    ELSE IF ~PushupClassifierVisible(namedLandmarks) THEN [skipped |-> TRUE]
    ELSE LET avgElbowAngle == PushupAvgElbowAngle(namedLandmarks)
         IN  [skipped |-> FALSE, avgElbowAngle |-> avgElbowAngle,
              phase |-> PushupPhaseDecision(avgElbowAngle, prevPhase, prevElbowAngle)]

InitFn ==
    /\ ComponentInit("squat")
    /\ \/ \E f \in InputFrames, p \in SquatPhaseInputs, h \in HipHeightInputs :
              fnCall = [fn |-> "determineSquatPhase", landmarks |-> f, prevPhase |-> p, prevValue |-> h]
       \/ \E f \in InputFrames, p \in PushupPhaseInputs, a \in ElbowAngleInputs :
              fnCall = [fn |-> "determinePushupPhase", landmarks |-> f, prevPhase |-> p, prevValue |-> a]
       \/ \E e \in {"evaluateSquatForm", "evaluatePushupForm"}, f \in InputFrames \cup EvalFrames,
             p \in EvaluatorPhaseInputs :
              fnCall = [fn |-> e, landmarks |-> f, phase |-> p]
    /\ fnRet = Pending
    /\ thread = <<>>

CallDetermineSquatPhase ==
    /\ fnCall.fn = "determineSquatPhase" /\ ~fnRet.done
    /\ fnRet' = [done |-> TRUE,
                 value |-> determineSquatPhase(fnCall.landmarks, fnCall.prevPhase, fnCall.prevValue),
                 locals |-> SquatLocals(fnCall.landmarks, fnCall.prevPhase, fnCall.prevValue)]
    /\ UNCHANGED <<componentVars, fnCall, thread>>

CallDeterminePushupPhase ==
    /\ fnCall.fn = "determinePushupPhase" /\ ~fnRet.done
    /\ fnRet' = [done |-> TRUE,
                 value |-> determinePushupPhase(fnCall.landmarks, fnCall.prevPhase, fnCall.prevValue),
                 locals |-> PushupLocals(fnCall.landmarks, fnCall.prevPhase, fnCall.prevValue)]
    /\ UNCHANGED <<componentVars, fnCall, thread>>

CallEvaluateSquatForm ==
    /\ fnCall.fn = "evaluateSquatForm" /\ ~fnRet.done
    /\ fnRet' = [done |-> TRUE, value |-> evaluateSquatForm(fnCall.landmarks, fnCall.phase)]
    /\ UNCHANGED <<componentVars, fnCall, thread>>

CallEvaluatePushupForm ==
    /\ fnCall.fn = "evaluatePushupForm" /\ ~fnRet.done
    /\ fnRet' = [done |-> TRUE, value |-> evaluatePushupForm(fnCall.landmarks, fnCall.phase)]
    /\ UNCHANGED <<componentVars, fnCall, thread>>

NextFn ==
    \/ CallDetermineSquatPhase
    \/ CallDeterminePushupPhase
    \/ CallEvaluateSquatForm
    \/ CallEvaluatePushupForm

SpecFn == InitFn /\ [][NextFn]_vars

(***************************************************************************)
(* Threaded classifier calls: a session starts at the rest phase of its    *)
(* exercise; every call receives the phase and the metric the call before  *)
(* returned.  thread[1] is the start, thread[k+1] the k-th call: the       *)
(* average joint angle of its frame, the metric and the phase it returned. *)
(***************************************************************************)
MaxThread == 3

ThreadHips == {0, 2, 4}
ThreadSquatFrames ==
    {Frame(b, AllVisible) : b \in {s \in SquatBodies :
         /\ s.hipL = s.hipR /\ s.hipL \in ThreadHips
         /\ <<s.legL, s.legR>> \in {<<P180, P180>>, <<P150, P150>>, <<P100, P100>>}}}
ThreadPushupFrames ==
    {Frame(b, AllVisible) : b \in {s \in PushupBodies :
         /\ s.torso = Plank
         /\ <<s.armL, s.armR>> \in {<<P180, P180>>, <<P135, P135>>, <<P150, P100>>,
                                    <<P100, P100>>, <<P120, P90>>, <<P90, P90>>}}}
ThreadFrames(type) == IF type = "squat" THEN ThreadSquatFrames ELSE ThreadPushupFrames

ThreadStarts ==
    {[type |-> "squat", angle |-> Null, value |-> v, phase |-> RestPhase("squat")] :
        v \in {Null} \cup ThreadHips}
    \cup {[type |-> "pushup", angle |-> Null, value |-> v, phase |-> RestPhase("pushup")] :
        v \in {Null, 105 * DegUnit}}

AvgJointAngle(type, lm) ==
    IF type = "squat" THEN SquatAvgKneeAngle(getNamedLandmarks(lm))
    ELSE PushupAvgElbowAngle(getNamedLandmarks(lm))

InitThread ==
    /\ ComponentInit("squat")
    /\ fnCall = NoCall
    /\ fnRet = Pending
    /\ \E s \in ThreadStarts : thread = <<s>>

ThreadCall(lm) ==
    /\ Len(thread) <= MaxThread
    /\ LET last == thread[Len(thread)]
           c == Classify(last.type, lm, last.phase, last.value)
       IN  thread' = Append(thread, [type |-> last.type, angle |-> AvgJointAngle(last.type, lm),
                                     value |-> c.value, phase |-> c.phase])
    /\ UNCHANGED <<componentVars, fnCall, fnRet>>

NextThread == \E lm \in ThreadFrames(thread[Len(thread)].type) : ThreadCall(lm)

SpecThread == InitThread /\ [][NextThread]_vars

(***************************************************************************)
(* Direct calls of the exported utilities isPointVisible,                  *)
(* getNamedLandmarks, calculateAngle and calculate3DAngle.  fnCall.args is *)
(* the argument list: isPointVisible is called with or without its second *)
(* argument.                                                               *)
(***************************************************************************)
\* A point object without a visibility property.
Bare(v) == [x |-> v.x, y |-> v.y, z |-> v.z]

VisibilityInputs == 0..VisUnit
PointInputs ==
    {Undefined, Bare(Vec(1, 2, 0))}
    \cup {Point(Vec(1, 2, 0), v) : v \in VisibilityInputs \cup {NaN}}
MinConfidenceInputs == {0, 3, 5, 8, VisUnit}

\* Points of the image plane around the vertex, and two vertices.
PlaneInputs == {Vec(x, y, 0) : x \in {-3, -1, 0, 1, 3}, y \in {-3, -1, 0, 1, 3}}
VertexInputs == {Vec(0, 0, 0), Vec(1, -1, 0)}
SpaceInputs ==
    {Vec(x, y, z) : x \in {-2, 0, 3}, y \in {-1, 0, 2}, z \in {-3, 0, 1}}

ShortFrame == Array([i \in 0..11 |-> Frame([hipL |-> 2, hipR |-> 2, torso |-> Upright,
                                             legL |-> P180, legR |-> P180,
                                             armL |-> P180, armR |-> P180], AllVisible).items[i]])
AccessorFrames ==
    {NullLandmarks, EmptyFrame, HeadlessFrame, ShortFrame}
    \cup {Frame(b, AllVisible) : b \in EvalPushupBodies}
    \cup {Frame(b, Visibility(i, 4)) : b \in DimBodies, i \in {5, 11, 16}}

InitUtil ==
    /\ ComponentInit("squat")
    /\ \/ \E p \in PointInputs : fnCall = [fn |-> "isPointVisible", args |-> <<p>>]
       \/ \E p \in PointInputs, m \in MinConfidenceInputs :
              fnCall = [fn |-> "isPointVisible", args |-> <<p, m>>]
       \/ \E f \in AccessorFrames : fnCall = [fn |-> "getNamedLandmarks", args |-> <<f>>]
       \/ \E a \in PlaneInputs, b \in VertexInputs, c \in PlaneInputs :
              fnCall = [fn |-> "calculateAngle", args |-> <<a, b, c>>]
       \/ \E a \in SpaceInputs, b \in VertexInputs, c \in SpaceInputs :
              fnCall = [fn |-> "calculate3DAngle", args |-> <<a, b, c>>]
    /\ fnRet = Pending
    /\ thread = <<>>

\* The truthiness of point && point.visibility > minConfidence, minConfidence
\* defaulting to 0.5.
CallIsPointVisible ==
    /\ fnCall.fn = "isPointVisible" /\ ~fnRet.done
    /\ LET minConfidence == IF Len(fnCall.args) < 2 THEN DefaultMinConfidence ELSE fnCall.args[2]
       IN  fnRet' = [done |-> TRUE, value |-> isPointVisible(fnCall.args[1], minConfidence)]
    /\ UNCHANGED <<componentVars, fnCall, thread>>

\* getNamedLandmarks reads its argument and writes only its own object
\* named: frame is the argument as the call leaves it.
CallGetNamedLandmarks ==
    /\ fnCall.fn = "getNamedLandmarks" /\ ~fnRet.done
    /\ fnRet' = [done |-> TRUE, value |-> getNamedLandmarks(fnCall.args[1]), frame |-> fnCall.args[1]]
    /\ UNCHANGED <<componentVars, fnCall, thread>>

CallCalculateAngle ==
    /\ fnCall.fn = "calculateAngle" /\ ~fnRet.done
    /\ fnRet' = [done |-> TRUE,
                 value |-> calculateAngle(fnCall.args[1], fnCall.args[2], fnCall.args[3])]
    /\ UNCHANGED <<componentVars, fnCall, thread>>

CallCalculate3DAngle ==
    /\ fnCall.fn = "calculate3DAngle" /\ ~fnRet.done
    /\ fnRet' = [done |-> TRUE,
                 value |-> calculate3DAngle(fnCall.args[1], fnCall.args[2], fnCall.args[3])]
    /\ UNCHANGED <<componentVars, fnCall, thread>>

NextUtil ==
    \/ CallIsPointVisible
    \/ CallGetNamedLandmarks
    \/ CallCalculateAngle
    \/ CallCalculate3DAngle

SpecUtil == InitUtil /\ [][NextUtil]_vars

(***************************************************************************)
(* Properties.                                                             *)
(***************************************************************************)
Done(fn) == fnCall.fn = fn /\ fnRet.done
IsNumber(v) == v # Null /\ v # NaN

\* The frame of the direct call is an array of 33 points.
FullFrame ==
    /\ ~IsNull(fnCall.landmarks)
    /\ Length(fnCall.landmarks) = 33
    /\ DOMAIN fnCall.landmarks.items = 0..32
\* Some landmark among the indices req has visibility <= 0.5.
SomeDim(req) == \E i \in req : fnCall.landmarks.items[i].visibility <= 5
SquatClassifierIndices == {11, 12, 13, 14, 15, 16}
PushupClassifierIndices == {5, 6, 7, 8, 9, 10}
SquatEvaluatorIndices == {5, 6, 11, 12, 13, 14, 15, 16}
PushupEvaluatorIndices == {5, 6, 7, 8, 9, 10, 11, 12}

\* C1: from phase standing, three threaded calls of determineSquatPhase on
\* visible frames with average knee angles 150, 100, 100 degrees and hip
\* heights rising from the first to the second and falling from the second
\* to the third report descending on the second and bottom on the third.
ClaimC1 ==
    \A i \in 1..(Len(thread) - 3) :
        ( /\ thread[i].type = "squat" /\ thread[i].phase = "standing"
          /\ thread[i + 1].angle = 150 * DegUnit
          /\ thread[i + 2].angle = 100 * DegUnit
          /\ thread[i + 3].angle = 100 * DegUnit
          /\ thread[i + 1].value < thread[i + 2].value
          /\ thread[i + 3].value < thread[i + 2].value )
        => (thread[i + 2].phase = "descending" /\ thread[i + 3].phase = "bottom")

\* C2: a classifier call whose previous phase is not bottom returns bottom
\* only if the previous phase passed in is descending.
TheoremC2 ==
    \A fn \in {"determineSquatPhase", "determinePushupPhase"} :
        (Done(fn) /\ fnRet.value.phase = "bottom" /\ fnCall.prevPhase # "bottom")
        => fnCall.prevPhase = "descending"

\* The squat classifier promotes a descending frame after a descending
\* frame to bottom.
WitnessC2 ==
    /\ Done("determineSquatPhase")
    /\ ~fnRet.locals.skipped
    /\ fnCall.prevPhase = "descending"
    /\ fnRet.value.phase = "bottom"

\* C3: on a visible frame, for every previous phase and every numeric
\* previous hip height, the phase before the bottom promotion is standing
\* if the average knee angle > 160; else descending if the angle < 110 and
\* the hip height is greater than the previous one; else ascending if the
\* angle < 110 and the hip height is less than the previous one; else the
\* previous phase.
ClaimC3 ==
    (Done("determineSquatPhase") /\ ~fnRet.locals.skipped /\ IsNumber(fnCall.prevValue))
    => LET a == fnRet.locals.avgKneeAngle
           h == fnRet.locals.hipHeight
       IN  fnRet.locals.phase =
               IF Gt(a, 160 * DegUnit) THEN "standing"
               ELSE IF Lt(a, 110 * DegUnit) /\ h > fnCall.prevValue THEN "descending"
               ELSE IF Lt(a, 110 * DegUnit) /\ h < fnCall.prevValue THEN "ascending"
               ELSE fnCall.prevPhase

\* C4: determineSquatPhase, called on a visible frame with a measurable
\* knee angle, a previous phase other than bottom and a numeric previous
\* hip height, returns bottom exactly when the phase just computed is
\* descending, the previous phase is descending and the hip height is less
\* than the previous one; it never returns bottom on a frame whose hip
\* height is greater than or equal to the previous one.
ClaimC4 ==
    ( /\ Done("determineSquatPhase") /\ ~fnRet.locals.skipped
      /\ IsNumber(fnRet.locals.avgKneeAngle)
      /\ fnCall.prevPhase # "bottom" /\ IsNumber(fnCall.prevValue) )
    => /\ fnRet.value.phase = "bottom"
          <=> ( /\ fnRet.locals.phase = "descending"
                /\ fnCall.prevPhase = "descending"
                /\ fnRet.locals.hipHeight < fnCall.prevValue )
       /\ fnRet.locals.hipHeight >= fnCall.prevValue => fnRet.value.phase # "bottom"

\* C5: a classifier given a null or empty frame, or a frame on which one of
\* its six landmarks has visibility <= 0.5, returns exactly the previous
\* phase and the previous metric.
TheoremC5 ==
    /\ ( /\ Done("determineSquatPhase")
         /\ (~FullFrame \/ SomeDim(SquatClassifierIndices)) )
       => fnRet.value = [phase |-> fnCall.prevPhase, hipHeight |-> fnCall.prevValue]
    /\ ( /\ Done("determinePushupPhase")
         /\ (~FullFrame \/ SomeDim(PushupClassifierIndices)) )
       => fnRet.value = [phase |-> fnCall.prevPhase, elbowAngle |-> fnCall.prevValue]

\* A frame whose left knee has visibility exactly 0.5, given to the squat
\* classifier after a descending frame, with a pose that would otherwise
\* be classified.
WitnessC5 ==
    /\ Done("determineSquatPhase")
    /\ FullFrame
    /\ fnCall.landmarks.items[13].visibility = 5
    /\ fnCall.prevPhase = "descending" /\ fnCall.prevValue = 2
    /\ fnRet.value.phase = "descending" /\ fnRet.value.hipHeight = 2

\* C6 as stated: on a visible frame, for every previous phase and every
\* previous elbow angle (null included), the phase before the bottom
\* promotion is top if the average elbow angle > 150; else descending if
\* the angle < 120 and lower than the previous one; else ascending if the
\* angle < 120 and higher than the previous one; else the previous phase.
ClaimC6 ==
    (Done("determinePushupPhase") /\ ~fnRet.locals.skipped)
    => LET a == fnRet.locals.avgElbowAngle
       IN  fnRet.locals.phase =
               IF Gt(a, 150 * DegUnit) THEN "top"
               ELSE IF Lt(a, 120 * DegUnit) /\ Lt(a, fnCall.prevValue) THEN "descending"
               ELSE IF Lt(a, 120 * DegUnit) /\ Gt(a, fnCall.prevValue) THEN "ascending"
               ELSE fnCall.prevPhase

\* C6 amended: the priority of C6 holds for every previous elbow angle that
\* is a number; when there is no previous elbow angle (null, the first
\* frame of a session), an average elbow angle < 120 is descending.
TheoremC6 ==
    (Done("determinePushupPhase") /\ ~fnRet.locals.skipped)
    => LET a == fnRet.locals.avgElbowAngle
       IN  fnRet.locals.phase =
               IF Gt(a, 150 * DegUnit) THEN "top"
               ELSE IF Lt(a, 120 * DegUnit) /\ fnCall.prevValue = Null THEN "descending"
               ELSE IF Lt(a, 120 * DegUnit) /\ Lt(a, fnCall.prevValue) THEN "descending"
               ELSE IF Lt(a, 120 * DegUnit) /\ Gt(a, fnCall.prevValue) THEN "ascending"
               ELSE fnCall.prevPhase

\* An average elbow angle of 105 degrees after a previous angle of 95
\* degrees: ascending; the same frame as the first of a session: descending.
WitnessC6 ==
    /\ Done("determinePushupPhase")
    /\ ~fnRet.locals.skipped
    /\ fnRet.locals.avgElbowAngle = 105 * DegUnit
    /\ fnCall.prevPhase = "descending" /\ fnCall.prevValue = 95 * DegUnit
    /\ fnRet.locals.phase = "ascending"

\* C7: when the previous phase is descending and the average elbow angle of
\* the next visible frame is below 120 degrees but greater than the
\* previous elbow angle (a positive number of degrees), determinePushupPhase
\* returns bottom.
ClaimC7 ==
    ( /\ Done("determinePushupPhase") /\ ~fnRet.locals.skipped
      /\ fnCall.prevPhase = "descending"
      /\ IsNumber(fnCall.prevValue) /\ fnCall.prevValue > 0
      /\ Lt(fnRet.locals.avgElbowAngle, 120 * DegUnit)
      /\ Gt(fnRet.locals.avgElbowAngle, fnCall.prevValue) )
    => fnRet.value.phase = "bottom"

\* C8: on a frame that is not skipped the classifier returns the metric of
\* the current frame, the mean of the two hip heights or of the two elbow
\* angles, whatever the previous phase, the previous metric and the phase
\* decided.
TheoremC8 ==
    /\ (Done("determineSquatPhase") /\ FullFrame /\ ~SomeDim(SquatClassifierIndices))
       => 2 * fnRet.value.hipHeight
            = fnCall.landmarks.items[11].y + fnCall.landmarks.items[12].y
    /\ (Done("determinePushupPhase") /\ FullFrame /\ ~SomeDim(PushupClassifierIndices))
       => LET p == fnCall.landmarks.items
          IN  fnRet.value.elbowAngle
                = Mean(calculate3DAngle(p[5], p[7], p[9]), calculate3DAngle(p[6], p[8], p[10]))

\* Hips at heights 0.1 and 0.3, previous height 1.0, phase unchanged: the
\* returned hip height is 0.2.
WitnessC8 ==
    /\ Done("determineSquatPhase")
    /\ FullFrame /\ ~SomeDim(SquatClassifierIndices)
    /\ fnCall.landmarks.items[11].y = 2 /\ fnCall.landmarks.items[12].y = 6
    /\ fnCall.prevValue = 20
    /\ fnRet.value.phase = fnCall.prevPhase
    /\ fnRet.value.hipHeight = 4

\* C9: the session state starts at (standing, null) for squat and at
\* (top, null) for push-up; on every tick that processes a detected frame
\* the classifier is called once with the stored phase and metric, the
\* evaluator once, after it, on the same frame with the phase the
\* classifier returned, and the stored phase and metric afterwards are the
\* values the classifier returned.
StartsAtRestC9 ==
    /\ exerciseType = "squat" => prevPhaseRef = "standing"
    /\ exerciseType = "pushup" => prevPhaseRef = "top"
    /\ prevValueRef = Null

FrameStepC9 ==
    calls' # <<>> =>
        /\ Len(calls') = 2
        /\ calls'[1].fn = "classifier" /\ calls'[2].fn = "evaluator"
        /\ calls'[1].landmarks = landmarks' /\ calls'[2].landmarks = landmarks'
        /\ calls'[1].prevPhase = prevPhaseRef /\ calls'[1].prevValue = prevValueRef
        /\ calls'[1].ret = Classify(exerciseType, landmarks', prevPhaseRef, prevValueRef)
        /\ calls'[2].phase = calls'[1].ret.phase
        /\ prevPhaseRef' = calls'[1].ret.phase
        /\ prevValueRef' = calls'[1].ret.value
        /\ evaluation' = Evaluate(exerciseType, landmarks', calls'[1].ret.phase)

TheoremC9 == StartsAtRestC9 /\ [][FrameStepC9]_vars

\* A squat frame processed while descending whose phase stays descending
\* and whose hip height replaces the stored one.
WitnessC9 ==
    /\ exerciseType = "squat"
    /\ Len(calls) = 2
    /\ calls[1].prevPhase = "descending" /\ calls[1].prevValue = 2
    /\ prevPhaseRef = "descending" /\ prevValueRef = 4

\* C10: for every phase, an evaluator given a frame on which one of its
\* eight required landmarks has visibility <= 0.5 returns exactly
\* isCorrect false and the single issue 'Some key landmarks not visible',
\* without an angles field.
TheoremC10 ==
    /\ (Done("evaluateSquatForm") /\ FullFrame /\ SomeDim(SquatEvaluatorIndices))
       => fnRet.value = [isCorrect |-> FALSE, issues |-> <<"Some key landmarks not visible">>]
    /\ (Done("evaluatePushupForm") /\ FullFrame /\ SomeDim(PushupEvaluatorIndices))
       => fnRet.value = [isCorrect |-> FALSE, issues |-> <<"Some key landmarks not visible">>]

\* The squat evaluator at phase bottom on a frame whose left shoulder has
\* visibility exactly 0.5.
WitnessC10 ==
    /\ Done("evaluateSquatForm")
    /\ FullFrame
    /\ fnCall.landmarks.items[5].visibility = 5
    /\ fnCall.phase = "bottom"
    /\ "angles" \notin DOMAIN fnRet.value
    /\ fnRet.value.issues = <<"Some key landmarks not visible">>

\* The frame of the direct call is absent (null) or empty.
NoFrame == IsNull(fnCall.landmarks) \/ Length(fnCall.landmarks) = 0
IsClassifierCall == fnCall.fn \in {"determineSquatPhase", "determinePushupPhase"}
IsEvaluatorCall == fnCall.fn \in {"evaluateSquatForm", "evaluatePushupForm"}
Raised(v) == "raised" \in DOMAIN v

\* C11: on an absent or empty frame and on a frame of 33 points, for every
\* phase, the two classifiers and the two evaluators return a result object
\* (a phase and a metric; isCorrect and a list of issues) and do not raise;
\* on an absent or empty frame an evaluator returns isCorrect false with
\* exactly one issue and no angles.
TheoremC11 ==
    (fnRet.done /\ (NoFrame \/ FullFrame))
    => /\ ~Raised(fnRet.value)
       /\ fnCall.fn = "determineSquatPhase" => DOMAIN fnRet.value = {"phase", "hipHeight"}
       /\ fnCall.fn = "determinePushupPhase" => DOMAIN fnRet.value = {"phase", "elbowAngle"}
       /\ IsEvaluatorCall
          => /\ {"isCorrect", "issues"} \subseteq DOMAIN fnRet.value
             /\ fnRet.value.isCorrect \in BOOLEAN
             /\ DOMAIN fnRet.value.issues = 1..Len(fnRet.value.issues)
       /\ (IsEvaluatorCall /\ NoFrame)
          => /\ fnRet.value.isCorrect = FALSE
             /\ Len(fnRet.value.issues) = 1
             /\ "angles" \notin DOMAIN fnRet.value

\* The push-up evaluator at phase bottom on an empty frame.
WitnessC11 ==
    /\ Done("evaluatePushupForm")
    /\ fnCall.landmarks = EmptyFrame
    /\ fnCall.phase = "bottom"
    /\ fnRet.value = [isCorrect |-> FALSE, issues |-> <<"No landmarks detected">>]


\* C12: every result an evaluator returns, on the empty-frame path, on the
\* invisible-landmark path and after a full evaluation, for every phase,
\* has isCorrect true if and only if its list of issues is empty.
TheoremC12 ==
    (fnRet.done /\ IsEvaluatorCall /\ ~Raised(fnRet.value))
    => (fnRet.value.isCorrect <=> fnRet.value.issues = <<>>)

\* A full evaluation without issues: the push-up evaluator at phase top on
\* a plank with extended arms.
WitnessC12 ==
    /\ Done("evaluatePushupForm")
    /\ fnCall.phase = "top"
    /\ "angles" \in DOMAIN fnRet.value
    /\ fnRet.value.angles.leftElbow = 180 * DegUnit
    /\ fnRet.value.isCorrect
    /\ fnRet.value.issues = <<>>

\* The checks evaluateSquatForm makes at a phase, in the order of the
\* rules, each with the issue it reports and whether the frame violates it.
SquatChecksC13(ph, a, p) ==
    LET T == SquatTHRESHOLDS
        back == [issue |-> "Back leaning too far forward", violated |-> Gt(a.back, T.MAX_BACK_LEAN)]
        aligned == [issue |-> "Knees not aligned with toes",
                    violated |-> \/ Abs(p[13].x - p[15].x) > T.MAX_KNEE_INWARD
                                 \/ Abs(p[14].x - p[16].x) > T.MAX_KNEE_INWARD]
    IN  IF ph = "bottom" THEN
            << [issue |-> "Knees not bent enough",
                violated |-> Gt(a.leftKnee, T.MAX_KNEE_ANGLE) \/ Gt(a.rightKnee, T.MAX_KNEE_ANGLE)],
               [issue |-> "Knees bent too much",
                violated |-> Lt(a.leftKnee, T.MIN_KNEE_ANGLE) \/ Lt(a.rightKnee, T.MIN_KNEE_ANGLE)],
               [issue |-> "Hips not bent enough",
                violated |-> Gt(a.leftHip, T.MAX_HIP_ANGLE) \/ Gt(a.rightHip, T.MAX_HIP_ANGLE)],
               [issue |-> "Hips bent too much",
                violated |-> Lt(a.leftHip, T.MIN_HIP_ANGLE) \/ Lt(a.rightHip, T.MIN_HIP_ANGLE)],
               back,
               [issue |-> "Knees too far forward of toes",
                violated |-> \/ p[13].z < p[15].z - T.MAX_KNEE_FORWARD
                             \/ p[14].z < p[16].z - T.MAX_KNEE_FORWARD],
               aligned >>
        ELSE IF ph \in {"descending", "ascending"} THEN <<back, aligned>>
        ELSE IF ph = "standing" THEN
            << [issue |-> "Not fully standing between reps",
                violated |-> Lt(a.leftKnee, 160 * DegUnit) \/ Lt(a.rightKnee, 160 * DegUnit)],
               [issue |-> "Not standing upright between reps",
                violated |-> Gt(a.back, 20 * DegUnit)] >>
        ELSE <<>>
IsViolated(check) == check.violated
IssuesOf(checks) ==
    LET found == SelectSeq(checks, IsViolated)
    IN  [i \in 1..Len(found) |-> found[i].issue]

\* C13: with its eight landmarks visible, evaluateSquatForm returns as
\* issues exactly the violated checks of the current phase, in the order of
\* the rules (seven checks at bottom, two while descending or ascending,
\* two at standing), and nothing for a check of another phase.
TheoremC13 ==
    (Done("evaluateSquatForm") /\ FullFrame /\ ~SomeDim(SquatEvaluatorIndices))
    => fnRet.value.issues
         = IssuesOf(SquatChecksC13(fnCall.phase, fnRet.value.angles, fnCall.landmarks.items))

\* At bottom, one knee at 130 degrees and the other at 60, with the back
\* leaning 60 degrees: both knee issues first, the back issue after the
\* hip issues.
WitnessC13 ==
    /\ Done("evaluateSquatForm")
    /\ fnCall.phase = "bottom"
    /\ "angles" \in DOMAIN fnRet.value
    /\ fnRet.value.angles.leftKnee = 130 * DegUnit /\ fnRet.value.angles.rightKnee = 60 * DegUnit
    /\ fnRet.value.angles.back = 60 * DegUnit
    /\ Len(fnRet.value.issues) >= 4
    /\ fnRet.value.issues[1] = "Knees not bent enough"
    /\ fnRet.value.issues[2] = "Knees bent too much"
    /\ fnRet.value.issues[Len(fnRet.value.issues)] = "Back leaning too far forward"

\* The frame of a squat held at the bottom in good form: both knees at 85
\* degrees, both hips at 90, the back leaning 10 degrees, knees over the
\* ankles.
GoodSquatFrame ==
    Frame([hipL |-> 20, hipR |-> 20, torso |-> TorsoGood, legL |-> L85, legR |-> L85,
           armL |-> P180, armR |-> P180], AllVisible)
GoodSquatAngles ==
    [leftKnee |-> 85 * DegUnit, rightKnee |-> 85 * DegUnit,
     leftHip |-> 90 * DegUnit, rightHip |-> 90 * DegUnit, back |-> 10 * DegUnit]

\* C14: at the bottom phase a frame showing good form (knees 85 degrees,
\* hips 90, back lean 10, knees neither in front of nor beside the ankles)
\* is judged correct with an empty issue list.
TheoremC14 ==
    /\ (Done("evaluateSquatForm") /\ fnCall.phase = "bottom" /\ fnCall.landmarks = GoodSquatFrame)
       => fnRet.value = [isCorrect |-> TRUE, issues |-> <<>>, angles |-> GoodSquatAngles]
    /\ (Done("evaluateSquatForm") /\ fnCall.phase = "bottom" /\ "angles" \in DOMAIN fnRet.value
        /\ fnRet.value.angles = GoodSquatAngles
        /\ \A k \in {13, 14} : /\ fnCall.landmarks.items[k].x = fnCall.landmarks.items[k + 2].x
                               /\ fnCall.landmarks.items[k].z = fnCall.landmarks.items[k + 2].z)
       => (fnRet.value.isCorrect /\ fnRet.value.issues = <<>>)

WitnessC14 ==
    /\ Done("evaluateSquatForm")
    /\ fnCall.phase = "bottom"
    /\ fnCall.landmarks = GoodSquatFrame
    /\ fnRet.value.isCorrect
    /\ fnRet.value.angles.back = 10 * DegUnit

Contains(issues, issue) == \E i \in DOMAIN issues : issues[i] = issue
\* angle > d degrees and angle < d degrees for an angle of a result; both
\* are false when the angle is NaN.
Above(angle, d) == angle # NaN /\ angle > d * DegUnit
Below(angle, d) == angle # NaN /\ angle < d * DegUnit

\* C15: at the bottom phase the accepted ranges are knee 70..100, hip
\* 70..110 and back lean up to 45 degrees, bounds included: each of the five
\* issues is reported exactly when an angle lies strictly outside its range,
\* and a knee at 130 degrees is reported as not bent enough and judged
\* incorrect.
TheoremC15 ==
    (Done("evaluateSquatForm") /\ fnCall.phase = "bottom" /\ "angles" \in DOMAIN fnRet.value)
    => LET a == fnRet.value.angles
           issues == fnRet.value.issues
       IN  /\ Contains(issues, "Knees not bent enough") <=> (Above(a.leftKnee, 100) \/ Above(a.rightKnee, 100))
           /\ Contains(issues, "Knees bent too much") <=> (Below(a.leftKnee, 70) \/ Below(a.rightKnee, 70))
           /\ Contains(issues, "Hips not bent enough") <=> (Above(a.leftHip, 110) \/ Above(a.rightHip, 110))
           /\ Contains(issues, "Hips bent too much") <=> (Below(a.leftHip, 70) \/ Below(a.rightHip, 70))
           /\ Contains(issues, "Back leaning too far forward") <=> Above(a.back, 45)
           /\ (a.leftKnee = 130 * DegUnit \/ a.rightKnee = 130 * DegUnit)
              => (Contains(issues, "Knees not bent enough") /\ ~fnRet.value.isCorrect)

\* A knee at exactly 100 degrees and a back leaning exactly 45 degrees raise
\* neither issue.
WitnessC15 ==
    /\ Done("evaluateSquatForm")
    /\ fnCall.phase = "bottom"
    /\ "angles" \in DOMAIN fnRet.value
    /\ fnRet.value.angles.leftKnee = 85 * DegUnit /\ fnRet.value.angles.rightKnee = 100 * DegUnit
    /\ fnRet.value.angles.back = 45 * DegUnit
    /\ ~Contains(fnRet.value.issues, "Knees not bent enough")
    /\ ~Contains(fnRet.value.issues, "Back leaning too far forward")

\* C16: at the top phase of a push-up 'Arms not fully extended at top' is
\* reported exactly when the left or the right elbow angle is below 150
\* degrees (150 itself is accepted), and an elbow at 140 degrees is
\* reported and judged incorrect.
TheoremC16 ==
    (Done("evaluatePushupForm") /\ fnCall.phase = "top" /\ "angles" \in DOMAIN fnRet.value)
    => LET a == fnRet.value.angles
           reported == Contains(fnRet.value.issues, "Arms not fully extended at top")
       IN  /\ reported <=> (Below(a.leftElbow, 150) \/ Below(a.rightElbow, 150))
           /\ (a.leftElbow = 140 * DegUnit \/ a.rightElbow = 140 * DegUnit)
              => (reported /\ ~fnRet.value.isCorrect)

\* Both elbows at exactly 150 degrees in a straight plank at the top:
\* nothing is reported.
WitnessC16 ==
    /\ Done("evaluatePushupForm")
    /\ fnCall.phase = "top"
    /\ "angles" \in DOMAIN fnRet.value
    /\ fnRet.value.angles.leftElbow = 150 * DegUnit /\ fnRet.value.angles.rightElbow = 150 * DegUnit
    /\ fnRet.value.issues = <<>>
    /\ fnRet.value.isCorrect

\* The four checks of the bottom of a push-up, in the order of the rules.
PushupBottomChecksC17(a) ==
    << [issue |-> "Not going deep enough",
        violated |-> Above(a.leftElbow, 100) \/ Above(a.rightElbow, 100)],
       [issue |-> "Elbows bent too much",
        violated |-> Below(a.leftElbow, 70) \/ Below(a.rightElbow, 70)],
       [issue |-> "Back sagging too much", violated |-> Above(a.back, 15)],
       [issue |-> "Neck not in neutral position", violated |-> Above(a.neck, 30)] >>

\* C17: at the bottom phase of a push-up the issues are exactly, in this
\* order, 'Not going deep enough' iff an elbow is above 100 degrees, 'Elbows
\* bent too much' iff an elbow is below 70, 'Back sagging too much' iff the
\* back angle is above 15 and 'Neck not in neutral position' iff the neck
\* angle is above 30; elbows at exactly 70 or 100 raise no elbow issue.
TheoremC17 ==
    (Done("evaluatePushupForm") /\ fnCall.phase = "bottom" /\ "angles" \in DOMAIN fnRet.value)
    => fnRet.value.issues = IssuesOf(PushupBottomChecksC17(fnRet.value.angles))

\* Elbows at exactly 70 and 100 degrees with a sagging back and a bent
\* neck: the back issue, then the neck issue, and no elbow issue.
WitnessC17 ==
    /\ Done("evaluatePushupForm")
    /\ fnCall.phase = "bottom"
    /\ "angles" \in DOMAIN fnRet.value
    /\ fnRet.value.angles.leftElbow = 70 * DegUnit /\ fnRet.value.angles.rightElbow = 100 * DegUnit
    /\ fnRet.value.angles.back = 18 * DegUnit
    /\ fnRet.value.angles.neck > 30 * DegUnit
    /\ fnRet.value.issues = <<"Back sagging too much", "Neck not in neutral position">>

\* Some visible frame takes the classifier of the direct call from its
\* previous phase and previous metric to another phase.
SomeFrameChangesPhase ==
    /\ fnCall.fn = "determineSquatPhase"
       => \E f \in ThreadSquatFrames :
              determineSquatPhase(f, fnCall.prevPhase, fnCall.prevValue).phase # fnCall.prevPhase
    /\ fnCall.fn = "determinePushupPhase"
       => \E f \in ThreadPushupFrames :
              determinePushupPhase(f, fnCall.prevPhase, fnCall.prevValue).phase # fnCall.prevPhase
\* A visible frame with average knee angle > 160 (average elbow angle > 150)
\* returns the rest phase.
ExtendedFrameRests ==
    /\ (Done("determineSquatPhase") /\ ~fnRet.locals.skipped
        /\ Above(fnRet.locals.avgKneeAngle, 160))
       => fnRet.value.phase = "standing"
    /\ (Done("determinePushupPhase") /\ ~fnRet.locals.skipped
        /\ Above(fnRet.locals.avgElbowAngle, 150))
       => fnRet.value.phase = "top"

\* C20 as stated: from every phase and every previous metric value some
\* visible frame changes the phase, and from every phase a visible frame
\* with average knee angle > 160 (elbow angle > 150) returns standing (top).
ClaimC20 ==
    /\ IsClassifierCall => SomeFrameChangesPhase
    /\ ExtendedFrameRests

\* C20 amended: from every phase and every previous metric value that is
\* null or a number some visible frame changes the phase, and from every
\* phase and every previous metric value a visible frame with average knee
\* angle > 160 (elbow angle > 150) returns standing (top).
TheoremC20 ==
    /\ (IsClassifierCall /\ fnCall.prevValue # NaN) => SomeFrameChangesPhase
    /\ ExtendedFrameRests

\* A push-up at bottom whose next frame has the arms extended: top.  From
\* bottom and from top (previous angle 180) other frames change the phase.
WitnessC20 ==
    /\ Done("determinePushupPhase")
    /\ fnCall.prevPhase = "bottom" /\ fnCall.prevValue = 95 * DegUnit
    /\ ~fnRet.locals.skipped
    /\ fnRet.locals.avgElbowAngle = 180 * DegUnit
    /\ fnRet.value.phase = "top"
    /\ \E f \in ThreadPushupFrames :
           determinePushupPhase(f, "top", fnRet.value.elbowAngle).phase # "top"

\* C21: isPointVisible(point, minConfidence) is truthy exactly when the
\* point exists and its visibility is strictly greater than minConfidence
\* (0.5 when not given); visibility equal to minConfidence is not visible,
\* and a missing point is not visible.
TheoremC21 ==
    Done("isPointVisible")
    => LET point == fnCall.args[1]
           threshold == IF Len(fnCall.args) = 2 THEN fnCall.args[2] ELSE 5
       IN  fnRet.value <=> /\ point # Undefined
                           /\ "visibility" \in DOMAIN point
                           /\ point.visibility # NaN
                           /\ point.visibility > threshold

\* A point with visibility exactly 0.5 under the default threshold: not
\* visible.
WitnessC21 ==
    /\ Done("isPointVisible")
    /\ Len(fnCall.args) = 1
    /\ fnCall.args[1] = Point(Vec(1, 2, 0), 5)
    /\ fnRet.value = FALSE

\* The element of a frame at an index: undefined past the end or in a hole.
ElementAt(frame, i) == IF i \in DOMAIN frame.items THEN frame.items[i] ELSE Undefined

\* C22: getNamedLandmarks returns null exactly when the frame is null,
\* undefined or empty; otherwise it returns a mapping of the 17 fixed names,
\* each holding the frame element at its fixed index (nose 0, eyes 1-2,
\* ears 3-4, shoulders 5-6, elbows 7-8, wrists 9-10, hips 11-12, knees
\* 13-14, ankles 15-16), whatever the points are, and the frame is left as
\* it was.
TheoremC22 ==
    Done("getNamedLandmarks")
    => LET frame == fnCall.args[1]
           named == fnRet.value
       IN  /\ IsNull(named) <=> (IsNull(frame) \/ Length(frame) = 0)
           /\ ~IsNull(named) =>
                /\ DOMAIN named = {"nose", "leftEye", "rightEye", "leftEar", "rightEar",
                                   "leftShoulder", "rightShoulder", "leftElbow", "rightElbow",
                                   "leftWrist", "rightWrist", "leftHip", "rightHip",
                                   "leftKnee", "rightKnee", "leftAnkle", "rightAnkle"}
                /\ named.nose = ElementAt(frame, 0)
                /\ named.leftEye = ElementAt(frame, 1) /\ named.rightEye = ElementAt(frame, 2)
                /\ named.leftEar = ElementAt(frame, 3) /\ named.rightEar = ElementAt(frame, 4)
                /\ named.leftShoulder = ElementAt(frame, 5) /\ named.rightShoulder = ElementAt(frame, 6)
                /\ named.leftElbow = ElementAt(frame, 7) /\ named.rightElbow = ElementAt(frame, 8)
                /\ named.leftWrist = ElementAt(frame, 9) /\ named.rightWrist = ElementAt(frame, 10)
                /\ named.leftHip = ElementAt(frame, 11) /\ named.rightHip = ElementAt(frame, 12)
                /\ named.leftKnee = ElementAt(frame, 13) /\ named.rightKnee = ElementAt(frame, 14)
                /\ named.leftAnkle = ElementAt(frame, 15) /\ named.rightAnkle = ElementAt(frame, 16)
           /\ fnRet.frame = frame

\* A full frame with a dim left shoulder: the mapping holds element 5 as
\* leftShoulder and another point as rightShoulder.
WitnessC22 ==
    /\ Done("getNamedLandmarks")
    /\ ~IsNull(fnCall.args[1]) /\ Length(fnCall.args[1]) = 33
    /\ fnCall.args[1].items[5].visibility = 4
    /\ fnRet.value.leftShoulder = fnCall.args[1].items[5]
    /\ fnRet.value.rightShoulder # fnRet.value.leftShoulder

\* C23: for all points a, b, c with a # b and c # b, calculateAngle(a, b, c)
\* lies in [0, 180] degrees: an absolute difference of the two bearings
\* above 180 is returned as 360 minus it.
TheoremC23 ==
    (Done("calculateAngle") /\ fnCall.args[1] # fnCall.args[2] /\ fnCall.args[3] # fnCall.args[2])
    => (0 <= fnRet.value /\ fnRet.value <= 180 * DegUnit)

\* Bearings of -135 and 135 degrees differ by 270: the angle returned is 90.
WitnessC23 ==
    /\ Done("calculateAngle")
    /\ fnCall.args = <<Vec(-3, -3, 0), Vec(0, 0, 0), Vec(-3, 3, 0)>>
    /\ fnRet.value = 90 * DegUnit

\* C24: calculate3DAngle is symmetric in its outer points: for all points
\* a, b, c, calculate3DAngle(a, b, c) and calculate3DAngle(c, b, a) are the
\* same value (the same number of degrees, or NaN both ways when an outer
\* point coincides with b).
TheoremC24 ==
    Done("calculate3DAngle")
    => fnRet.value = calculate3DAngle(fnCall.args[3], fnCall.args[2], fnCall.args[1])

\* Outer points at different distances from the vertex, 90 degrees apart.
WitnessC24 ==
    /\ Done("calculate3DAngle")
    /\ fnCall.args = <<Vec(3, 0, 0), Vec(0, 0, 0), Vec(0, 2, 1)>>
    /\ fnRet.value = 90 * DegUnit
    /\ calculate3DAngle(Vec(0, 2, 1), Vec(0, 0, 0), Vec(3, 0, 0)) = 90 * DegUnit

\* determineSquatPhase returned bottom from previous phase descending on a
\* fully visible frame with numeric knee angles, the previous hip height
\* being a number other than 0.
BottomFromDescendingC25 ==
    /\ Done("determineSquatPhase") /\ FullFrame
    /\ ~fnRet.locals.skipped /\ IsNumber(fnRet.locals.avgKneeAngle)
    /\ fnCall.prevPhase = "descending"
    /\ IsNumber(fnCall.prevValue) /\ fnCall.prevValue # 0
    /\ fnRet.value.phase = "bottom"
\* The average knee angle of the frame lies in [110, 160] and the evaluator
\* at bottom is incorrect with 'Knees not bent enough' (or short-circuits).
DisagreeC25 ==
    /\ 110 * DegUnit <= fnRet.locals.avgKneeAngle
    /\ fnRet.locals.avgKneeAngle <= 160 * DegUnit
    /\ LET e == evaluateSquatForm(fnCall.landmarks, "bottom")
       IN  /\ ~e.isCorrect
           /\ \/ Contains(e.issues, "Knees not bent enough")
              \/ e.issues = <<"Some key landmarks not visible">>

\* C25 as stated: whenever determineSquatPhase with previous phase
\* descending (previous hip height neither null nor 0) returns bottom, the
\* average knee angle lies in [110, 160] and evaluateSquatForm at bottom is
\* incorrect with 'Knees not bent enough'; and no frame the caller loop
\* classifies as bottom, from whatever stored phase, is evaluated as correct.
ClaimC25 ==
    /\ BottomFromDescendingC25 => DisagreeC25
    /\ ( /\ Done("determineSquatPhase") /\ FullFrame
         /\ ~fnRet.locals.skipped /\ IsNumber(fnRet.locals.avgKneeAngle)
         /\ IsNumber(fnCall.prevValue) /\ fnCall.prevValue # 0
         /\ fnRet.value.phase = "bottom" )
       => ~evaluateSquatForm(fnCall.landmarks, "bottom").isCorrect

\* C25 amended: whenever determineSquatPhase with previous phase descending
\* (previous hip height a number other than 0) returns bottom, the average
\* knee angle lies in [110, 160] and evaluateSquatForm at bottom is
\* incorrect with 'Knees not bent enough' (or the visibility
\* short-circuit); a frame that keeps a previous phase bottom is not
\* covered.
TheoremC25 == BottomFromDescendingC25 => DisagreeC25

\* Knees at 150 degrees with the hips higher than on the previous
\* descending frame: bottom, and the evaluator asks for more knee bend.
WitnessC25 ==
    /\ Done("determineSquatPhase")
    /\ FullFrame /\ ~fnRet.locals.skipped
    /\ fnCall.prevPhase = "descending" /\ fnCall.prevValue = 4
    /\ fnRet.locals.avgKneeAngle = 150 * DegUnit
    /\ fnRet.value = [phase |-> "bottom", hipHeight |-> 2]
    /\ Contains(evaluateSquatForm(fnCall.landmarks, "bottom").issues, "Knees not bent enough")

\* C26: on a fully visible frame with numeric elbow angles, and with a
\* previous elbow angle that is not null, whenever determinePushupPhase with
\* previous phase descending returns bottom the average elbow angle lies in
\* [120, 150], and evaluatePushupForm on the same frame with phase bottom is
\* incorrect and reports 'Not going deep enough' (or the visibility
\* short-circuit).
TheoremC26 ==
    ( /\ Done("determinePushupPhase") /\ FullFrame
      /\ ~fnRet.locals.skipped /\ IsNumber(fnRet.locals.avgElbowAngle)
      /\ fnCall.prevPhase = "descending"
      /\ fnCall.prevValue # Null
      /\ fnRet.value.phase = "bottom" )
    => /\ 120 * DegUnit <= fnRet.locals.avgElbowAngle
       /\ fnRet.locals.avgElbowAngle <= 150 * DegUnit
       /\ LET e == evaluatePushupForm(fnCall.landmarks, "bottom")
          IN  /\ ~Raised(e)
              /\ ~e.isCorrect
              /\ \/ Contains(e.issues, "Not going deep enough")
                 \/ e.issues = <<"Some key landmarks not visible">>

\* Elbows at 135 degrees after a descending frame at 105: bottom, and the
\* evaluator asks for more depth.
WitnessC26 ==
    /\ Done("determinePushupPhase")
    /\ FullFrame /\ ~fnRet.locals.skipped
    /\ fnCall.prevPhase = "descending" /\ fnCall.prevValue = 105 * DegUnit
    /\ fnRet.value = [phase |-> "bottom", elbowAngle |-> 135 * DegUnit]
    /\ Contains(evaluatePushupForm(fnCall.landmarks, "bottom").issues, "Not going deep enough")

\* C27: evaluatePushupForm never reports 'Hips too high (piking)': the back
\* angle comes from calculateAngle and is never negative, so for every
\* frame and every phase the only back-alignment issue is 'Back sagging too
\* much'.
TheoremC27 ==
    (Done("evaluatePushupForm") /\ ~Raised(fnRet.value))
    => /\ ~Contains(fnRet.value.issues, "Hips too high (piking)")
       /\ "angles" \in DOMAIN fnRet.value => fnRet.value.angles.back >= 0

\* A push-up with the hips above the shoulders: the back angle is 18
\* degrees and the issue reported is sagging.
WitnessC27 ==
    /\ Done("evaluatePushupForm")
    /\ fnCall.phase = "bottom"
    /\ FullFrame
    /\ fnCall.landmarks.items[11].y < fnCall.landmarks.items[5].y
    /\ "angles" \in DOMAIN fnRet.value
    /\ fnRet.value.angles.back = 18 * DegUnit
    /\ Contains(fnRet.value.issues, "Back sagging too much")

\* C28: with no previous hip height (null), a visible frame with average
\* knee angle < 110 and average hip height > 0 takes the descending branch
\* whatever the previous phase (the missing height counts as 0); on the
\* first frame of a session, previous phase standing, the call returns
\* descending, and a call with previous phase standing and no previous
\* height never returns bottom.
TheoremC28 ==
    /\ ( /\ Done("determineSquatPhase") /\ ~fnRet.locals.skipped
         /\ fnCall.prevValue = Null
         /\ Below(fnRet.locals.avgKneeAngle, 110)
         /\ fnRet.locals.hipHeight > 0 )
       => /\ fnRet.locals.phase = "descending"
          /\ fnCall.prevPhase = "standing" => fnRet.value.phase = "descending"
    /\ (Done("determineSquatPhase") /\ fnCall.prevValue = Null /\ fnCall.prevPhase = "standing")
       => fnRet.value.phase # "bottom"

\* The first frame of a session with the knees at 100 degrees and the hips
\* at height 0.1: descending.
WitnessC28 ==
    /\ Done("determineSquatPhase")
    /\ ~fnRet.locals.skipped
    /\ fnCall.prevPhase = "standing" /\ fnCall.prevValue = Null
    /\ fnRet.locals.avgKneeAngle = 100 * DegUnit
    /\ fnRet.value = [phase |-> "descending", hipHeight |-> 2]

\* C29: given a phase outside the exercise's four phases (null, or 'top'
\* for the squat, 'standing' for the push-up) and a 33-point frame with all
\* required landmarks visible, the evaluators apply no check: isCorrect is
\* true, issues is empty and angles holds its angles, whatever the pose.
TheoremC29 ==
    /\ ( /\ Done("evaluateSquatForm") /\ FullFrame /\ ~SomeDim(SquatEvaluatorIndices)
         /\ fnCall.phase \notin {"standing", "descending", "bottom", "ascending"} )
       => /\ fnRet.value.isCorrect /\ fnRet.value.issues = <<>>
          /\ DOMAIN fnRet.value.angles = {"leftKnee", "rightKnee", "leftHip", "rightHip", "back"}
    /\ ( /\ Done("evaluatePushupForm") /\ FullFrame /\ ~SomeDim(PushupEvaluatorIndices)
         /\ fnCall.phase \notin {"top", "descending", "bottom", "ascending"} )
       => /\ fnRet.value.isCorrect /\ fnRet.value.issues = <<>>
          /\ DOMAIN fnRet.value.angles = {"leftElbow", "rightElbow", "back", "neck"}

\* A squat with one knee at 130 degrees, the other at 60 and the back
\* leaning 60 degrees, evaluated with the phase 'top': correct.
WitnessC29 ==
    /\ Done("evaluateSquatForm")
    /\ fnCall.phase = "top"
    /\ "angles" \in DOMAIN fnRet.value
    /\ fnRet.value.angles.leftKnee = 130 * DegUnit /\ fnRet.value.angles.rightKnee = 60 * DegUnit
    /\ fnRet.value.angles.back = 60 * DegUnit
    /\ fnRet.value.isCorrect /\ fnRet.value.issues = <<>>

\* The refs and the evaluation the frame loop keeps between frames.
StoredC30 == <<prevPhaseRef, prevValueRef, evaluation>>

\* C30: in the frame loop a tick whose detection reports no landmarks, and
\* every tick once the video ref is gone, calls neither the classifier nor
\* the evaluator and leaves the previous phase, the previous metric and the
\* last evaluation as they were; they change only on a tick that processes
\* a frame with detected landmarks.
TheoremC30 ==
    [][ /\ \A videoReady \in BOOLEAN, newFrame \in BOOLEAN :
               predictWebcam(videoReady, newFrame, <<>>)
               => (calls' = <<>> /\ StoredC30' = StoredC30)
        /\ \A videoReady \in BOOLEAN, newFrame \in BOOLEAN, results \in DetectionResults :
               (~videoRef /\ predictWebcam(videoReady, newFrame, results))
               => (calls' = <<>> /\ StoredC30' = StoredC30)
        /\ StoredC30' # StoredC30
           => /\ videoRef /\ poseLandmarker
              /\ Len(calls') = 2
              /\ ~IsNull(calls'[1].landmarks) /\ landmarks' = calls'[1].landmarks
              /\ \E f \in LoopFrames : predictWebcam(TRUE, TRUE, <<f>>) ]_vars

\* The component stopped in the middle of a repetition: later ticks log no
\* call, and the phase, the metric and the evaluation of the last processed
\* frame are still stored.
WitnessC30 ==
    /\ ~videoRef /\ poseLandmarker
    /\ calls = <<>>
    /\ prevPhaseRef \notin {"standing", "top"}
    /\ prevValueRef # Null
    /\ "angles" \in DOMAIN evaluation

====
